---- MODULE Spec2Model ----
(***************************************************************************)
(* Cohort metrics pipeline of the Ironhack Payments project.               *)
(*                                                                         *)
(* Three scripts run one after the other and hand tables on through CSV    *)
(* files:                                                                  *)
(*   1_data_cleaning_ironhack_payments.py   raw extracts -> cleaned tables *)
(*   2_eda_ironhack_payments.py             cleaned -> merged / cohorts    *)
(*   3_cohort_analysis_metrics.py           merged -> cohort metrics       *)
(*                                                                         *)
(* Representation.  A table is a sequence of row groups: a record of the   *)
(* modelled columns plus a field n, the number of consecutive rows of the  *)
(* table that carry exactly these values in the modelled columns (columns  *)
(* that no computation reads, such as the fee id, are not modelled, so a   *)
(* group with n > 1 stands for n rows that differ at most there).          *)
(* Missing values (NaN / NaT) of numeric and datetime columns are NaN,     *)
(* missing values of text columns are NaNStr.  A timestamp is an integer   *)
(* number of hours: Ts(year, month, day) is midnight of that day and       *)
(* TsAt(year, month, day, hour) an hour of it; a calendar month            *)
(* ("2020-01") is the integer Ym(year, month).  Money is in whole euros,   *)
(* rounded ratios are integers in the unit of the last kept decimal        *)
(* (thousandths, cents).  The columns that are not modelled (amount, the   *)
(* status of a request, the type, category and charge_moment of a fee,     *)
(* the ids of the fees, ...) hold a value in every row.                    *)
(* The set disk names the data files that exist; a script whose input     *)
(* file is missing stops at its load step.  The metric tables of script 3  *)
(* stand for the CSV files they are written to.                            *)
(*                                                                         *)
(* The scripts are notebooks exported to Python: the cells run from top    *)
(* to bottom and an exception in a cell ends the script.  Some cells       *)
(* raise on tables the cells before them accept (a pivot without the       *)
(* column a later line reads, a heatmap of an empty table).  An action     *)
(* stands for a run of consecutive cells; when one of them raises, the     *)
(* action keeps what the cells wrote before the exception and pc names     *)
(* the place the script stopped at.                                        *)
(***************************************************************************)
EXTENDS Integers, Sequences, FiniteSets, TLC

\* ------------------------------------------------------------------------
\* Bounds of the model
\* ------------------------------------------------------------------------
MaxCash == 2
MaxFee == 2
BigCount == 2001
MaxUsers == 3
MaxRuns == 2
MaxRequests == 3

\* ------------------------------------------------------------------------
\* Values
\* ------------------------------------------------------------------------
NaN == -1
NaTStr == 999999
NaNStr == "<NaN>"

Ym(y, m) == 12 * (y - 2019) + (m - 1)
TsAt(y, m, d, h) == 24 * (32 * Ym(y, m) + d) + h
Ts(y, m, d) == TsAt(y, m, d, 0)

\* Series.dt.to_period('M'): the calendar month of a timestamp, NaT stays NaT
to_period_M(t) == IF t = NaN THEN NaN ELSE t \div (24 * 32)

\* Series.dt.to_period('M').astype(str): NaT becomes the text "NaT"
period_astype_str(p) == IF p = NaN THEN NaTStr ELSE p

\* pd.to_datetime(col, errors='coerce'): a value that does not parse is NaT
BadDate == -3
to_datetime_coerce(v) == IF v = NaN \/ v = BadDate THEN NaN ELSE v

\* ------------------------------------------------------------------------
\* Generic helpers on tables
\* ------------------------------------------------------------------------
RECURSIVE SeqSum(_)
SeqSum(s) == IF s = <<>> THEN 0 ELSE Head(s) + SeqSum(Tail(s))

RECURSIVE Flatten(_)
Flatten(ss) == IF ss = <<>> THEN <<>> ELSE Head(ss) \o Flatten(Tail(ss))

\* len(df): number of rows of a table
NRows(t) == SeqSum([i \in DOMAIN t |-> t[i].n])

Range(s) == {s[i] : i \in DOMAIN s}

Min(S) == CHOOSE x \in S : \A y \in S : x <= y

\* ------------------------------------------------------------------------
\* (a / b).round(d): a float64 division, then numpy's rounding
\* rint(x * 10**d) / 10**d, all in float64.  A float64 is a 53 bit mantissa
\* (a sequence of bits, most significant first) and a binary exponent.
\* ------------------------------------------------------------------------
\* a / b = (n[1] / n[2]) * 2^n[3] with 1 <= n[1] / n[2] < 2
RECURSIVE float_normal(_, _, _)
float_normal(a, b, e) ==
    IF a >= 2 * b THEN float_normal(a, 2 * b, e + 1)
    ELSE IF a < b THEN float_normal(2 * a, b, e - 1)
    ELSE <<a, b, e>>

\* the first k bits of r / b (0 <= r < 2b) and what is left of r after them
RECURSIVE div_bits(_, _, _)
div_bits(r, b, k) ==
    IF k = 0 THEN <<>>
    ELSE LET bit == IF r >= b THEN 1 ELSE 0
         IN  <<bit>> \o div_bits(2 * (r - bit * b), b, k - 1)

RECURSIVE div_rem(_, _, _)
div_rem(r, b, k) ==
    IF k = 0 THEN r
    ELSE div_rem(2 * (r - (IF r >= b THEN b ELSE 0)), b, k - 1)

RECURSIVE bits_value(_)
bits_value(bits) ==
    IF bits = <<>> THEN 0
    ELSE 2 * bits_value(SubSeq(bits, 1, Len(bits) - 1)) + bits[Len(bits)]

RECURSIVE bits_of(_)
bits_of(v) == IF v = 0 THEN <<>> ELSE bits_of(v \div 2) \o <<v % 2>>

\* the mantissa plus one unit in its last place (one bit longer on carry)
RECURSIVE bits_incr(_)
bits_incr(bits) ==
    IF bits = <<>> THEN <<1>>
    ELSE IF bits[Len(bits)] = 0
         THEN SubSeq(bits, 1, Len(bits) - 1) \o <<1>>
         ELSE bits_incr(SubSeq(bits, 1, Len(bits) - 1)) \o <<0>>

\* round to nearest, ties to even: the k leading bits of a longer mantissa
\* and the number of bits dropped; sticky tells that more non-zero bits
\* follow the ones given
round_bits(bits, sticky, k) ==
    LET kept == SubSeq(bits, 1, k)
        up == /\ Len(bits) > k
              /\ bits[k + 1] = 1
              /\ \/ sticky
                 \/ \E i \in (k + 2)..Len(bits) : bits[i] = 1
                 \/ kept[k] = 1
        next == bits_incr(kept)
    IN  IF ~up THEN [bits |-> kept, dropped |-> Len(bits) - Len(kept)]
        ELSE IF Len(next) > k
             THEN [bits |-> SubSeq(next, 1, k), dropped |-> Len(bits) - k + 1]
             ELSE [bits |-> next, dropped |-> Len(bits) - k]

\* the exact product of a mantissa and a small integer
RECURSIVE mul_bits(_, _, _)
mul_bits(bits, scale, carry) ==
    IF carry = 0 /\ bits = <<>> THEN <<>>
    ELSE IF bits = <<>> THEN bits_of(carry)
    ELSE LET v == bits[Len(bits)] * scale + carry
         IN  mul_bits(SubSeq(bits, 1, Len(bits) - 1), scale, v \div 2) \o <<v % 2>>

\* np.rint(x): round to the nearest integer, ties to even, of the float64
\* with mantissa bits and value bits * 2^sh
rint_bits(bits, sh) ==
    IF sh >= 0 THEN bits_value(bits) * 2^sh
    ELSE IF -sh > Len(bits) THEN 0
    ELSE LET whole == bits_value(SubSeq(bits, 1, Len(bits) + sh))
             frac == SubSeq(bits, Len(bits) + sh + 1, Len(bits))
         IN  IF frac[1] = 0 THEN whole
             ELSE IF \E i \in 2..Len(frac) : frac[i] = 1 THEN whole + 1
             ELSE IF whole % 2 = 0 THEN whole ELSE whole + 1

\* rint(fl(fl(num / den) * scale)) for num, den > 0
float64_round(num, den, scale) ==
    LET n == float_normal(num, den, 0)
        quot == round_bits(div_bits(n[1], n[2], 54), div_rem(n[1], n[2], 54) # 0, 53)
        prod == round_bits(mul_bits(quot.bits, scale, 0), FALSE, 53)
    IN  rint_bits(prod.bits, n[3] - 53 + quot.dropped + prod.dropped)

\* Series.round of num / den, in the unit 1 / scale.  The float64 quotient
\* of two counts below 2^20 times the scale is closer to the exact one than
\* 2^-20 / den, so the rounding of the exact quotient is the rounding of
\* the float unless the exact quotient lies halfway between two multiples
\* of the unit; there the error of the float64 operations decides.
RoundDiv(num, den, scale) ==
    LET q == (num * scale) \div den
        r == (num * scale) % den
    IN  IF 2 * r > den THEN q + 1
        ELSE IF 2 * r < den THEN q
        ELSE IF num > 0 THEN float64_round(num, den, scale)
        ELSE -float64_round(-num, den, scale)

\* str.lower().str.strip() on the texts that occur in the model
LowerStrip(s) ==
    CASE s = "Accepted "  -> "accepted"
      [] s = " NaN "      -> "nan"
      [] s = "NULL "      -> "null"
      [] s = "Completed"  -> "completed"
      [] OTHER            -> s

\* astype(str): a missing value becomes the text "nan"
astype_str(v) == IF v = NaNStr THEN "nan" ELSE v

\* ------------------------------------------------------------------------
\* The state
\* ------------------------------------------------------------------------
VARIABLES
    pc,                         \* position in the three scripts
    disk,                       \* names of the data files that exist
    run,                        \* number of the current run of the pipeline
    first_run,                  \* the output tables as the first run left them
    report,                     \* counts the cleaning script prints
    raw_cash, raw_fees,         \* project_datasets/*.csv
    cash_header,                \* column names of the cash request extract
    clean_cash_csv,             \* cleaned_project_datasets/clean_cash_requests.csv
    clean_fees_csv,             \* cleaned_project_datasets/clean_fees.csv
    user_first_request_csv,     \* eda_outputs/data/user_first_request.csv
    merged_cash_fee_csv,        \* eda_outputs/data/merged_cash_fee.csv
    merged_cash_fee_cohort_csv, \* cohort_outputs/data/merged_cash_fee_cohort.csv
    cash_df, fees_df,           \* in-memory tables of the running script
    unmatched_ids,
    merged_df,
    user_first_request,
    merged_cash_fee_cohort,
    cohort_usage_matrix,
    retention_matrix,
    filtered_retention_matrix,
    incident_df,
    cohort_revenue,
    revenue_df,
    arpu_df,
    clv_df

vars == <<pc, disk, run, first_run, report, raw_cash, raw_fees, cash_header, clean_cash_csv, clean_fees_csv,
          user_first_request_csv, merged_cash_fee_csv,
          merged_cash_fee_cohort_csv, cash_df, fees_df, unmatched_ids,
          merged_df, user_first_request, merged_cash_fee_cohort,
          cohort_usage_matrix, retention_matrix, filtered_retention_matrix,
          incident_df, cohort_revenue, revenue_df, arpu_df, clv_df>>

inputs == <<raw_cash, raw_fees, cash_header>>
history == <<run, first_run>>
files1 == <<clean_cash_csv, clean_fees_csv>>
files2 == <<user_first_request_csv, merged_cash_fee_csv>>
mem1 == <<cash_df, fees_df, unmatched_ids>>
mem2 == <<merged_df, user_first_request>>
mem3 == <<merged_cash_fee_cohort, cohort_usage_matrix, retention_matrix,
          filtered_retention_matrix, incident_df, cohort_revenue, revenue_df,
          arpu_df, clv_df>>

EmptyMatrix == [index |-> {}, columns |-> {}, cell |-> <<>>]

\* pandas.read_csv: a text cell that spells a missing value is read as NaN
\* (pandas' default na_values, restricted to the texts of the model)
read_csv_text(v) == IF v \in {"", "nan", "NaN", "null", "NULL", "n/a", "N/A"} THEN NaNStr ELSE v

\* ------------------------------------------------------------------------
\* Inputs: the two raw extracts
\* ------------------------------------------------------------------------
SeqsUpTo(D, k) == UNION {[1..m -> D] : m \in 0..k}

\* a cash request: an instant transfer whose other dates are empty, unless
\* the row says otherwise
CashRow(id, u, d, t, rs, n) ==
    [id |-> id, user_id |-> u, deleted_account_id |-> d, created_at |-> t,
     updated_at |-> NaN, moderated_at |-> NaN, reimbursement_date |-> NaN,
     cash_request_received_date |-> NaN, money_back_date |-> NaN,
     send_at |-> NaN, reco_creation |-> NaN, reco_last_update |-> NaN,
     transfer_type |-> "instant", recovery_status |-> rs, n |-> n]

\* a fee: its dates are empty, unless the row says otherwise
FeeRow(crid, st, amt, n) ==
    [cash_request_id |-> crid, status |-> st, total_amount |-> amt,
     created_at |-> NaN, updated_at |-> NaN, paid_at |-> NaN,
     from_date |-> NaN, to_date |-> NaN, n |-> n]

\* The extracts the scripts run to the end on have requests in both months
\* the charts mark as partial and in a month between them, requests with
\* and without a recovery record, both transfer types, and a fee on one of
\* the requests.  Every extract of the specifications ends with these rows:
\* a request of user 91 in November 2019 that went through recovery, and
\* two regular transfers of user 92, in June and in November 2020, the
\* first with an accepted fee.
BaseCash ==
    <<CashRow(91, 91, NaN, Ts(2019, 11, 19), "completed", 1),
      [CashRow(92, 92, NaN, Ts(2020, 6, 15), NaNStr, 1) EXCEPT !.transfer_type = "regular"],
      [CashRow(93, 92, NaN, Ts(2020, 11, 1), NaNStr, 1) EXCEPT !.transfer_type = "regular"]>>

BaseFees == <<FeeRow(92, "accepted", 5, 1)>>

\* up to k rows of the domain D, followed by the rows of base
Extracts(D, k, base) == {s \o base : s \in SeqsUpTo(D, k)}

TypeInputs(CashDom, FeeDom) ==
    /\ raw_cash \in Extracts(CashDom, MaxCash, BaseCash)
    /\ raw_fees \in Extracts(FeeDom, MaxFee, BaseFees)

\* the data files of the three scripts
RawFiles == {"cash_request", "fees"}
CleanFiles == {"clean_cash_requests", "clean_fees"}
EdaFiles == {"user_first_request", "monthly_active_users", "transfer_type_share",
             "merged_cash_fee"}

\* no output table has been written, no table is in memory
NoReport ==
    [future |-> 0, future_fees |-> 0, id_dupes |-> 0, dropped |-> 0,
     nonpositive |-> 0]

InitTables ==
    /\ run = 1
    /\ first_run = <<>>
    /\ report = NoReport
    /\ clean_cash_csv = <<>>
    /\ clean_fees_csv = <<>>
    /\ user_first_request_csv = <<>>
    /\ merged_cash_fee_csv = <<>>
    /\ merged_cash_fee_cohort_csv = <<>>
    /\ cash_df = <<>>
    /\ fees_df = <<>>
    /\ unmatched_ids = <<>>
    /\ merged_df = <<>>
    /\ user_first_request = <<>>
    /\ merged_cash_fee_cohort = <<>>
    /\ cohort_usage_matrix = EmptyMatrix
    /\ retention_matrix = EmptyMatrix
    /\ filtered_retention_matrix = EmptyMatrix
    /\ incident_df = <<>>
    /\ cohort_revenue = <<>>
    /\ revenue_df = <<>>
    /\ arpu_df = <<>>
    /\ clv_df = <<>>

\* the columns the cleaning script classifies in variable_types
CashHeader ==
    {"amount", "status", "transfer_type", "recovery_status", "created_at",
     "updated_at", "moderated_at", "reimbursement_date",
     "cash_request_received_date", "money_back_date", "send_at",
     "reco_creation", "reco_last_update", "id", "user_id", "deleted_account_id"}

FeeHeader ==
    {"total_amount", "type", "status", "category", "charge_moment", "created_at",
     "updated_at", "paid_at", "from_date", "to_date", "id", "cash_request_id",
     "reason"}

\* a cash request extract that also carries the columns reason and
\* cash_request_debited_date
DocumentedCashHeader == CashHeader \cup {"reason", "cash_request_debited_date"}

CashHeaders == {CashHeader, DocumentedCashHeader}

\* nothing has run yet and both raw extracts are in place
InitRest ==
    /\ pc = "clean_load"
    /\ cash_header = CashHeader
    /\ disk = RawFiles
    /\ InitTables

InitOn(CashDom, FeeDom) == TypeInputs(CashDom, FeeDom) /\ InitRest

\* ------------------------------------------------------------------------
\* Script 1: data cleaning
\* ------------------------------------------------------------------------
SetCol(t, col, f(_)) == [i \in DOMAIN t |-> [t[i] EXCEPT ![col] = f(t[i])]]
AddCol(t, col, f(_)) == [i \in DOMAIN t |-> t[i] @@ (col :> f(t[i]))]

\* In[2]: pd.read_csv of the two raw extracts
\* pd.read_csv of a file of cash requests: the text columns are read with
\* the default missing-value spellings
read_cash_csv(t) ==
    SetCol(SetCol(t, "recovery_status", LAMBDA r : read_csv_text(r.recovery_status)),
           "transfer_type", LAMBDA r : read_csv_text(r.transfer_type))

LoadRaw ==
    /\ pc = "clean_load"
    /\ RawFiles \subseteq disk
    /\ cash_df' = read_cash_csv(raw_cash)
    /\ fees_df' = SetCol(raw_fees, "status", LAMBDA r : read_csv_text(r.status))
    /\ pc' = "clean_datetime"
    /\ UNCHANGED <<inputs, history, report, disk, files1, files2, merged_cash_fee_cohort_csv,
                   unmatched_ids, mem2, mem3>>

\* variable_types[...]['datetime']
cash_datetime ==
    {"created_at", "updated_at", "moderated_at", "reimbursement_date",
     "cash_request_received_date", "money_back_date", "send_at",
     "reco_creation", "reco_last_update"}

fees_datetime == {"created_at", "updated_at", "paid_at", "from_date", "to_date"}

\* In[10], In[11]: pd.to_datetime(errors='coerce') and tz_localize(None) on
\* every datetime column of both tables
convert_datetime(t, cols) ==
    [i \in DOMAIN t |->
        [c \in DOMAIN t[i] |->
            IF c \in cols THEN to_datetime_coerce(t[i][c]) ELSE t[i][c]]]

ConvertDatetime ==
    /\ pc = "clean_datetime"
    /\ cash_df' = convert_datetime(cash_df, cash_datetime)
    /\ fees_df' = convert_datetime(fees_df, fees_datetime)
    /\ pc' = "clean_detect"
    /\ UNCHANGED <<inputs, history, report, disk, files1, files2, merged_cash_fee_cohort_csv,
                   unmatched_ids, mem2, mem3>>

\* In[12]: the rows with a datetime column after midnight of the cutoff day
\* are counted,
\* in both tables; In[13], In[14]: duplicated values of the key column are
\* counted.  Nothing is removed.  (Rows that are duplicates in every column
\* cannot be told apart from rows of one group, and the ids of the fees are
\* not modelled.)
future_cutoff == Ts(2024, 12, 12)

\* df[cols].gt(future_cutoff).any(axis=1).sum(): NaT is not after anything
future_rows(t, cols) ==
    NRows(SelectSeq(t, LAMBDA r :
        \E c \in cols : r[c] # NaN /\ r[c] > future_cutoff))

\* Series.duplicated().sum(): every occurrence of a value after its first
id_dupes(cash) == NRows(cash) - Cardinality({cash[i].id : i \in DOMAIN cash})

DetectAnomalies ==
    /\ pc = "clean_detect"
    /\ report' = [report EXCEPT !.future = future_rows(cash_df, cash_datetime),
                                !.future_fees = future_rows(fees_df, fees_datetime),
                                !.id_dupes = id_dupes(cash_df)]
    /\ pc' = "clean_conflict"
    /\ UNCHANGED <<inputs, history, disk, files1, files2,
                   merged_cash_fee_cohort_csv, mem1, mem2, mem3>>

\* In[19]: deleted_account_id := NaN where both ids are present
\* (mutant) "|" for "&": the deleted id goes wherever either id is present
nullify_deleted_either(r) ==
    IF r.user_id # NaN \/ r.deleted_account_id # NaN
    THEN NaN ELSE r.deleted_account_id

nullify_deleted(r) ==
    IF r.user_id # NaN /\ r.deleted_account_id # NaN
    THEN NaN ELSE r.deleted_account_id

ResolveConflict ==
    /\ pc = "clean_conflict"
    /\ cash_df' = SetCol(cash_df, "deleted_account_id", nullify_deleted)
    /\ pc' = "clean_final_user_id"
    /\ UNCHANGED <<inputs, history, report, disk, files1, files2, merged_cash_fee_cohort_csv,
                   fees_df, unmatched_ids, mem2, mem3>>

\* In[21]: final_user_id = user_id.fillna(deleted_account_id)
fillna(a, b) == IF a = NaN THEN b ELSE a

final_user_id_of(r) == fillna(r.user_id, r.deleted_account_id)

UnifyIdentity ==
    /\ pc = "clean_final_user_id"
    /\ cash_df' = AddCol(cash_df, "final_user_id", final_user_id_of)
    /\ pc' = "clean_unmatched"
    /\ UNCHANGED <<inputs, history, report, disk, files1, files2, merged_cash_fee_cohort_csv,
                   fees_df, unmatched_ids, mem2, mem3>>

\* In[23]: fees whose cash_request_id is not an id of cash_df (reported only)
valid_cash_ids(cash) == {cash[i].id : i \in DOMAIN cash}

CheckUnmatched ==
    /\ pc = "clean_unmatched"
    /\ unmatched_ids' = SelectSeq(fees_df,
            LAMBDA f : f.cash_request_id \notin valid_cash_ids(cash_df))
    /\ pc' = "clean_drop_fees"
    /\ UNCHANGED <<inputs, history, report, disk, files1, files2, merged_cash_fee_cohort_csv,
                   cash_df, fees_df, mem2, mem3>>

\* In[24]: keep the fees with a non-null cash_request_id
\* (mutant) the fees with a non-positive amount are removed as well
drop_null_or_nonpositive(fees) ==
    SelectSeq(fees, LAMBDA f : f.cash_request_id # NaN /\ f.total_amount > 0)

drop_null_cash_request_id(fees) ==
    SelectSeq(fees, LAMBDA f : f.cash_request_id # NaN)

DropNullFees ==
    /\ pc = "clean_drop_fees"
    /\ fees_df' = drop_null_cash_request_id(fees_df)
    /\ report' = [report EXCEPT !.dropped = NRows(fees_df) - NRows(fees_df')]
    /\ pc' = "clean_categorical"
    /\ UNCHANGED <<inputs, history, disk, files1, files2, merged_cash_fee_cohort_csv,
                   cash_df, unmatched_ids, mem2, mem3>>

\* In[25]: astype(str).str.lower().str.strip(), then "nan" -> NaN
\* (mutant) the text "nan" is left in the column
clean_categorical_keep_nan(v) == LowerStrip(astype_str(v))

clean_categorical_value(v) ==
    LET s == LowerStrip(astype_str(v))
    IN  IF s = "nan" THEN NaNStr ELSE s

clean_categorical_column(t, col) ==
    SetCol(t, col, LAMBDA r : clean_categorical_value(r[col]))

\* In[26]
CleanCategorical ==
    /\ pc = "clean_categorical"
    /\ cash_df' = clean_categorical_column(
                      clean_categorical_column(cash_df, "transfer_type"),
                      "recovery_status")
    /\ fees_df' = clean_categorical_column(fees_df, "status")
    /\ pc' = "clean_monetary"
    /\ UNCHANGED <<inputs, history, report, disk, files1, files2, merged_cash_fee_cohort_csv,
                   unmatched_ids, mem2, mem3>>

\* In[27]: fees with total_amount <= 0 are counted (a missing amount is not)
nonpositive_fees(fees) ==
    NRows(SelectSeq(fees, LAMBDA f : f.total_amount # NaN /\ f.total_amount <= 0))

ValidateMonetary ==
    /\ pc = "clean_monetary"
    /\ report' = [report EXCEPT !.nonpositive = nonpositive_fees(fees_df)]
    /\ pc' = "clean_save"
    /\ UNCHANGED <<inputs, history, disk, files1, files2,
                   merged_cash_fee_cohort_csv, mem1, mem2, mem3>>

\* DataFrame.to_csv(path): the file holds the table, whatever it held before
\* (mutant) mode='a': the table is appended to what the file holds
to_csv_append(old, df) == old \o df

to_csv(old, df) == df

\* In[30]: to_csv of both cleaned tables (OVERWRITE_CSV = True)
SaveCleaned ==
    /\ pc = "clean_save"
    /\ clean_cash_csv' = to_csv(clean_cash_csv, cash_df)
    /\ clean_fees_csv' = to_csv(clean_fees_csv, fees_df)
    /\ disk' = disk \cup CleanFiles
    /\ pc' = "eda_load"
    /\ UNCHANGED <<inputs, history, report, files2, merged_cash_fee_cohort_csv, mem1, mem2, mem3>>

\* ------------------------------------------------------------------------
\* Script 2: exploratory analysis, fee linking, first request per user
\* ------------------------------------------------------------------------
\* In[3]: pd.read_csv of the two cleaned tables
LoadCleaned ==
    /\ pc = "eda_load"
    /\ CleanFiles \subseteq disk
    /\ cash_df' = read_cash_csv(clean_cash_csv)
    /\ fees_df' = SetCol(clean_fees_csv, "status", LAMBDA r : read_csv_text(r.status))
    /\ unmatched_ids' = <<>>
    /\ pc' = "eda_incident_flag"
    /\ UNCHANGED <<inputs, history, report, disk, files1, files2, merged_cash_fee_cohort_csv,
                   mem2, mem3>>

\* In[7]: the bar chart of a categorical column sets its y-axis from
\* counts.max(), which is NaN for a table without rows: plt.ylim raises
categorical_plots_raise(cash, fees) == cash = <<>> \/ fees = <<>>

\* In[11]: year_month of created_at and the incident flag
incident_flag_of(r) == IF r.recovery_status # NaNStr THEN "incident" ELSE "no_incident"

\* the two months the charts of the EDA mark as partial
eda_partial_months == {Ym(2019, 11), Ym(2020, 11)}

\* In[11]: the pivot of the monthly counts has a column per flag that occurs
\* and a row per month that occurs, among the requests with a date.  The
\* columns 'incident' and 'no_incident' are read, and get_loc looks up both
\* partial months: a KeyError when one of them is not there
incident_trend_raises(cash) ==
    LET dated == SelectSeq(cash, LAMBDA r : r.year_month # NaN)
        flags == {dated[i].incident_flag : i \in DOMAIN dated}
        months == {dated[i].year_month : i \in DOMAIN dated}
    IN  ~ /\ {"incident", "no_incident"} \subseteq flags
          /\ eda_partial_months \subseteq months

\* In[4] .. In[11].  The script ends in In[7] on an empty table; in In[8],
\* after year_month was added, on a table without a request with a
\* readable date (the monthly counts are empty, their maximum is NaN and
\* ax1.set_ylim(0, NaN) raises); and in In[11], after the flag was added, on
\* a table without both flags or without both partial months.
EdaIncidentFlag ==
    /\ pc = "eda_incident_flag"
    /\ IF categorical_plots_raise(cash_df, fees_df)
       THEN /\ pc' = "eda_plots_raised"
            /\ UNCHANGED cash_df
       ELSE LET parsed == SetCol(cash_df, "created_at",
                                 LAMBDA r : to_datetime_coerce(r.created_at))
                ym == AddCol(parsed, "year_month",
                             LAMBDA r : to_period_M(r.created_at))
            IN  IF \A i \in DOMAIN ym : ym[i].year_month = NaN
                THEN /\ cash_df' = ym
                     /\ pc' = "eda_volume_raised"
                ELSE /\ cash_df' = AddCol(ym, "incident_flag", incident_flag_of)
                     /\ pc' = IF incident_trend_raises(cash_df')
                              THEN "eda_incident_raised" ELSE "eda_merge"
    /\ UNCHANGED <<inputs, history, report, disk, files1, files2, merged_cash_fee_cohort_csv,
                   fees_df, unmatched_ids, mem2, mem3>>

\* In[16]: rename the columns the two tables share
rename_cash(r) ==
    [cash_request_id |-> r.id, cash_created_at |-> r.created_at,
     cash_updated_at |-> r.updated_at, moderated_at |-> r.moderated_at,
     user_id |-> r.user_id, deleted_account_id |-> r.deleted_account_id,
     final_user_id |-> r.final_user_id, recovery_status |-> r.recovery_status,
     reimbursement_date |-> r.reimbursement_date,
     cash_request_received_date |-> r.cash_request_received_date,
     money_back_date |-> r.money_back_date, send_at |-> r.send_at,
     reco_creation |-> r.reco_creation, reco_last_update |-> r.reco_last_update,
     transfer_type |-> r.transfer_type,
     year_month |-> r.year_month, incident_flag |-> r.incident_flag, n |-> r.n]

rename_fee(f) ==
    [cash_request_id |-> f.cash_request_id, fee_status |-> f.status,
     total_amount |-> f.total_amount, fee_created_at |-> f.created_at,
     fee_updated_at |-> f.updated_at, paid_at |-> f.paid_at,
     from_date |-> f.from_date, to_date |-> f.to_date, n |-> f.n]

\* In[17]: cash_df.merge(fees_df, how='left', on='cash_request_id')
joined_row(c, f) ==
    c @@ [fee_status |-> f.fee_status, total_amount |-> f.total_amount,
          fee_created_at |-> f.fee_created_at, fee_updated_at |-> f.fee_updated_at,
          paid_at |-> f.paid_at, from_date |-> f.from_date, to_date |-> f.to_date]

unjoined_row(c) ==
    c @@ [fee_status |-> NaNStr, total_amount |-> NaN, fee_created_at |-> NaN,
          fee_updated_at |-> NaN, paid_at |-> NaN, from_date |-> NaN, to_date |-> NaN]

\* (mutant) how='inner': a request without fees gives no row
inner_merge_row(c, fees) ==
    LET m == SelectSeq(fees, LAMBDA f : f.cash_request_id = c.cash_request_id)
    IN  [j \in DOMAIN m |-> [joined_row(c, m[j]) EXCEPT !.n = c.n * m[j].n]]

left_merge_row(c, fees) ==
    LET m == SelectSeq(fees, LAMBDA f : f.cash_request_id = c.cash_request_id)
    IN  IF m = <<>> THEN <<unjoined_row(c)>>
        ELSE [j \in DOMAIN m |-> [joined_row(c, m[j]) EXCEPT !.n = c.n * m[j].n]]

\* (mutant) how='outer': a fee without a request gives a row of its own
outer_merge(cash, fees) ==
    Flatten([i \in DOMAIN cash |-> left_merge_row(cash[i], fees)])
    \o LET orphans == SelectSeq(fees, LAMBDA f :
                          \A i \in DOMAIN cash : cash[i].cash_request_id # f.cash_request_id)
       IN  [j \in DOMAIN orphans |->
               [cash_request_id |-> orphans[j].cash_request_id, cash_created_at |-> NaN,
                cash_updated_at |-> NaN, moderated_at |-> NaN,
                user_id |-> NaN, deleted_account_id |-> NaN, final_user_id |-> NaN,
                recovery_status |-> NaNStr, reimbursement_date |-> NaN,
                cash_request_received_date |-> NaN, money_back_date |-> NaN,
                send_at |-> NaN, reco_creation |-> NaN, reco_last_update |-> NaN,
                transfer_type |-> NaNStr, year_month |-> NaTStr,
                incident_flag |-> NaNStr, n |-> orphans[j].n,
                fee_status |-> orphans[j].fee_status,
                total_amount |-> orphans[j].total_amount,
                fee_created_at |-> orphans[j].fee_created_at,
                fee_updated_at |-> orphans[j].fee_updated_at,
                paid_at |-> orphans[j].paid_at, from_date |-> orphans[j].from_date,
                to_date |-> orphans[j].to_date]]

left_merge(cash, fees) == Flatten([i \in DOMAIN cash |-> left_merge_row(cash[i], fees)])

\* In[18]: the heatmap of fee types by request status is drawn from the
\* rows with a fee; seaborn raises on the table without rows that is left
\* when no fee is joined to any request
fee_type_heatmap_raises(cash, fees) ==
    \A i \in DOMAIN cash : \A j \in DOMAIN fees :
        cash[i].cash_request_id # fees[j].cash_request_id

\* In[12] .. In[19]
RenameAndMerge ==
    /\ pc = "eda_merge"
    /\ cash_df' = [i \in DOMAIN cash_df |-> rename_cash(cash_df[i])]
    /\ fees_df' = [i \in DOMAIN fees_df |-> rename_fee(fees_df[i])]
    /\ merged_df' = left_merge(cash_df', fees_df')
    /\ pc' = IF fee_type_heatmap_raises(cash_df', fees_df')
             THEN "eda_merge_raised" ELSE "eda_first_request"
    /\ UNCHANGED <<inputs, history, report, disk, files1, files2, merged_cash_fee_cohort_csv,
                   unmatched_ids, user_first_request, mem3>>

\* In[20]: groupby('final_user_id')['cash_created_at'].min() and the cohort
\* columns derived from it
RECURSIVE SortedSeq(_)
SortedSeq(S) == IF S = {} THEN <<>> ELSE <<Min(S)>> \o SortedSeq(S \ {Min(S)})

\* (mutant) the latest instead of the earliest request of the group
group_max(cash, u) ==
    LET ts == {cash[i].cash_created_at : i \in {j \in DOMAIN cash :
                  cash[j].final_user_id = u /\ cash[j].cash_created_at # NaN}}
    IN  IF ts = {} THEN NaN ELSE CHOOSE x \in ts : \A y \in ts : y <= x

\* Series.min() of a group: NaT values are skipped, NaT when none is left
group_min(cash, u) ==
    LET ts == {cash[i].cash_created_at : i \in {j \in DOMAIN cash :
                  cash[j].final_user_id = u /\ cash[j].cash_created_at # NaN}}
    IN  IF ts = {} THEN NaN ELSE Min(ts)

\* Series.dt.strftime('%b %Y'): the month as text, NaN for NaT
strftime_bY(t) == IF t = NaN THEN NaN ELSE t \div (24 * 32)

first_request_row(cash, u) ==
    LET first == group_min(cash, u)
    IN  [final_user_id |-> u, first_request_date |-> first,
         cohort_month |-> strftime_bY(first),
         cohort_year_month |-> period_astype_str(to_period_M(first)), n |-> 1]

\* (mutant) no groupby: one mapping row per request, dated by the request
first_request_per_row(cash) ==
    LET known == SelectSeq(cash, LAMBDA r : r.final_user_id # NaN)
    IN  [k \in DOMAIN known |->
            [final_user_id |-> known[k].final_user_id,
             first_request_date |-> known[k].cash_created_at,
             cohort_month |-> strftime_bY(known[k].cash_created_at),
             cohort_year_month |-> period_astype_str(to_period_M(known[k].cash_created_at)),
             n |-> 1]]

first_request_per_user(cash) ==
    LET users == {cash[i].final_user_id : i \in DOMAIN cash} \ {NaN}
        keys == SortedSeq(users)
    IN  [k \in DOMAIN keys |-> first_request_row(cash, keys[k])]

UserFirstRequest ==
    /\ pc = "eda_first_request"
    /\ LET parsed == SetCol(cash_df, "cash_created_at",
                            LAMBDA r : to_datetime_coerce(r.cash_created_at))
       IN  /\ cash_df' = parsed
           /\ user_first_request' = first_request_per_user(parsed)
    /\ pc' = "eda_save"
    /\ UNCHANGED <<inputs, history, report, disk, files1, files2, merged_cash_fee_cohort_csv,
                   fees_df, unmatched_ids, merged_df, mem3>>

\* In[22]: the monthly counts per transfer type, of the requests with a
\* date, have a column per type that occurs; the columns 'instant' and
\* 'regular' are read: a KeyError when one of them is not there
transfer_share_raises(cash) ==
    LET dated == SelectSeq(cash, LAMBDA r : r.cash_created_at # NaN)
    IN  ~ ({"instant", "regular"} \subseteq
              {dated[i].transfer_type : i \in DOMAIN dated})

\* In[21] .. In[23]: save_csv_if_allowed (OVERWRITE_CSV = True); nothing is
\* saved when In[22] raised
\* (mutant) the EDA also writes its cash table over the cleaned one
SaveEdaOverCleaned ==
    /\ pc = "eda_save"
    /\ IF transfer_share_raises(cash_df)
       THEN /\ pc' = "eda_share_raised"
            /\ UNCHANGED <<disk, files1, files2>>
       ELSE /\ user_first_request_csv' = to_csv(user_first_request_csv, user_first_request)
            /\ merged_cash_fee_csv' = to_csv(merged_cash_fee_csv, merged_df)
            /\ clean_cash_csv' = to_csv(clean_cash_csv, merged_df)
            /\ disk' = disk \cup EdaFiles
            /\ pc' = "metrics_load"
            /\ UNCHANGED clean_fees_csv
    /\ UNCHANGED <<inputs, history, report, merged_cash_fee_cohort_csv,
                   mem1, mem2, mem3>>

SaveEda ==
    /\ pc = "eda_save"
    /\ IF transfer_share_raises(cash_df)
       THEN /\ pc' = "eda_share_raised"
            /\ UNCHANGED <<disk, files2>>
       ELSE /\ user_first_request_csv' = to_csv(user_first_request_csv, user_first_request)
            /\ merged_cash_fee_csv' = to_csv(merged_cash_fee_csv, merged_df)
            /\ disk' = disk \cup EdaFiles
            /\ pc' = "metrics_load"
    /\ UNCHANGED <<inputs, history, report, files1, merged_cash_fee_cohort_csv, mem1, mem2, mem3>>

\* ------------------------------------------------------------------------
\* Script 3: cohort metrics
\* ------------------------------------------------------------------------
\* pd.read_csv of a merged table: the text columns go through the NaN rule
read_merged_csv(t) ==
    [i \in DOMAIN t |->
        [t[i] EXCEPT !.recovery_status = read_csv_text(@),
                     !.transfer_type = read_csv_text(@),
                     !.fee_status = read_csv_text(@),
                     !.incident_flag = read_csv_text(@)]]

\* In[2]: load the EDA outputs
LoadEda ==
    /\ pc = "metrics_load"
    /\ EdaFiles \subseteq disk
    /\ user_first_request' = user_first_request_csv
    /\ merged_df' = read_merged_csv(merged_cash_fee_csv)
    /\ cash_df' = <<>>
    /\ fees_df' = <<>>
    /\ unmatched_ids' = <<>>
    /\ pc' = "metrics_cohort_merge"
    /\ UNCHANGED <<inputs, history, report, disk, files1, files2, merged_cash_fee_cohort_csv, mem3>>

\* In[8]: pd.merge(merged_df, user_first_request_df[[...]], on='final_user_id',
\* how='left')
\* (mutant) no join key: every row is paired with the cohort of every user
cohort_cross_merge_row(r, ufr) ==
    [j \in DOMAIN ufr |->
        [r @@ [cohort_month |-> ufr[j].cohort_month,
               cohort_year_month |-> ufr[j].cohort_year_month]
            EXCEPT !.n = r.n * ufr[j].n]]

cohort_merge_row(r, ufr) ==
    LET m == SelectSeq(ufr, LAMBDA u : u.final_user_id = r.final_user_id)
    IN  IF m = <<>>
        THEN <<r @@ [cohort_month |-> NaN, cohort_year_month |-> NaN]>>
        ELSE [j \in DOMAIN m |->
                [r @@ [cohort_month |-> m[j].cohort_month,
                       cohort_year_month |-> m[j].cohort_year_month]
                    EXCEPT !.n = r.n * m[j].n]]

cohort_merge(merged, ufr) ==
    Flatten([i \in DOMAIN merged |-> cohort_merge_row(merged[i], ufr)])

CohortMerge ==
    /\ pc = "metrics_cohort_merge"
    /\ merged_cash_fee_cohort' = cohort_merge(merged_df, user_first_request)
    /\ pc' = "metrics_save_cohort"
    /\ UNCHANGED <<inputs, history, report, disk, files1, files2, merged_cash_fee_cohort_csv, mem1, mem2,
                   cohort_usage_matrix, retention_matrix,
                   filtered_retention_matrix, incident_df, cohort_revenue,
                   revenue_df, arpu_df, clv_df>>

\* In[11]: reorder the columns and save merged_cash_fee_cohort.csv
\* the columns of the tables, from the header of the cash request extract
\* script 1, In[21]: final_user_id is added
cleaned_cash_columns(h) == h \cup {"final_user_id"}

\* script 2, In[6], In[10], In[11]: columns added to cash_df before the merge
eda_cash_columns(h) ==
    h \cup {"year_month", "month_label", "recovery_status_clean", "incident_flag"}

\* script 2, In[16]: DataFrame.rename of the columns the two tables share
renamed_cash_column(c) ==
    CASE c = "id"         -> "cash_request_id"
      [] c = "created_at" -> "cash_created_at"
      [] c = "updated_at" -> "cash_updated_at"
      [] c = "status"     -> "cash_status"
      [] OTHER            -> c

renamed_fee_column(c) ==
    CASE c = "id"         -> "fee_id"
      [] c = "created_at" -> "fee_created_at"
      [] c = "updated_at" -> "fee_updated_at"
      [] c = "status"     -> "fee_status"
      [] OTHER            -> c

\* DataFrame.merge: a column of both tables that is not the key gets the
\* suffix of its side
merge_columns(left, right, key, lsuffix, rsuffix) ==
    {IF c \in right /\ c # key THEN c \o lsuffix ELSE c : c \in left}
    \cup {IF c \in left /\ c # key THEN c \o rsuffix ELSE c : c \in right}

\* script 2, In[17]: the columns of merged_cash_fee.csv
merged_columns(h) ==
    merge_columns({renamed_cash_column(c) : c \in eda_cash_columns(cleaned_cash_columns(h))},
                  {renamed_fee_column(c) : c \in FeeHeader},
                  "cash_request_id", "_cash", "_fee")

\* script 3, In[8]: the columns after the cohort merge
cohort_columns(h) ==
    merge_columns(merged_columns(h),
                  {"final_user_id", "cohort_month", "cohort_year_month"},
                  "final_user_id", "_x", "_y")

\* script 3, In[11]
new_column_order ==
    {"final_user_id", "cohort_month", "cohort_year_month",
     "cash_request_id", "amount", "cash_status", "transfer_type",
     "reimbursement_date", "cash_created_at", "cash_updated_at",
     "user_id", "moderated_at", "deleted_account_id",
     "cash_request_received_date", "money_back_date", "send_at",
     "recovery_status", "reco_creation", "reco_last_update",
     "year_month", "month_label", "recovery_status_clean", "incident_flag",
     "fee_id", "total_amount", "type", "fee_status", "fee_created_at",
     "category", "reason", "fee_updated_at", "paid_at",
     "from_date", "to_date", "charge_moment"}

missing_columns(h) == new_column_order \ cohort_columns(h)

\* script 3, In[11]: the table is reordered and saved when no column of
\* new_column_order is missing; otherwise a warning is printed
SaveCohort ==
    /\ pc = "metrics_save_cohort"
    /\ IF missing_columns(cash_header) = {}
       THEN /\ merged_cash_fee_cohort_csv'
                  = to_csv(merged_cash_fee_cohort_csv, merged_cash_fee_cohort)
            /\ disk' = disk \cup {"merged_cash_fee_cohort"}
       ELSE UNCHANGED <<merged_cash_fee_cohort_csv, disk>>
    /\ pc' = "metrics_usage"
    /\ UNCHANGED <<inputs, history, report, files1, files2, mem1, mem2, mem3>>

\* DataFrame.groupby(keys).size(): rows with a missing key are left out
group_size(t, Key(_), k) ==
    NRows(SelectSeq(t, LAMBDA r : Key(r) = k))

\* In[12]: groupby(['cohort_year_month', 'year_month']).size(), pivot,
\* fillna(0).astype(int)
usage_groups(t) ==
    {<<t[i].cohort_year_month, t[i].year_month>> : i \in {j \in DOMAIN t :
        t[j].cohort_year_month # NaN /\ t[j].year_month # NaN}}

\* (mutant) counts the distinct cash requests of a group, not its rows
usage_matrix_nunique(t) ==
    LET g == usage_groups(t)
        idx == {p[1] : p \in g}
        cols == {p[2] : p \in g}
    IN  [index |-> idx, columns |-> cols,
         cell |-> [p \in idx \X cols |->
                     Cardinality({t[i].cash_request_id : i \in {j \in DOMAIN t :
                        <<t[j].cohort_year_month, t[j].year_month>> = p}})]]

usage_matrix(t) ==
    LET g == usage_groups(t)
        idx == {p[1] : p \in g}
        cols == {p[2] : p \in g}
    IN  [index |-> idx, columns |-> cols,
         cell |-> [p \in idx \X cols |->
                     IF p \in g
                     THEN group_size(t,
                            LAMBDA r : <<r.cohort_year_month, r.year_month>>, p)
                     ELSE 0]]

\* sns.heatmap takes the colour range from the smallest and the largest
\* cell: it raises on a table without rows or without columns
heatmap_raises(m) == m.index = {} \/ m.columns = {}

\* the matrix is saved, then drawn; the except clause raises again
Usage ==
    /\ pc = "metrics_usage"
    /\ cohort_usage_matrix' = usage_matrix(merged_cash_fee_cohort)
    /\ pc' = IF heatmap_raises(cohort_usage_matrix')
             THEN "metrics_usage_raised" ELSE "metrics_retention"
    /\ UNCHANGED <<inputs, history, report, disk, files1, files2, merged_cash_fee_cohort_csv, mem1, mem2,
                   merged_cash_fee_cohort, retention_matrix,
                   filtered_retention_matrix, incident_df, cohort_revenue,
                   revenue_df, arpu_df, clv_df>>

\* In[13]: each row divided by its first strictly positive value, 3 decimals
\* (mutant) the row's largest value as denominator
row_max(m, c) ==
    LET vals == {m.cell[<<c, k>>] : k \in m.columns}
    IN  IF vals = {} THEN 0 ELSE CHOOSE x \in vals : \A y \in vals : y <= x

first_positive(m, c) ==
    LET pos == {k \in m.columns : m.cell[<<c, k>>] > 0}
    IN  IF pos = {} THEN 0 ELSE m.cell[<<c, Min(pos)>>]

normalize(m, First(_, _)) ==
    [index |-> m.index, columns |-> m.columns,
     cell |-> [p \in m.index \X m.columns |->
                 IF First(m, p[1]) > 0
                 THEN RoundDiv(m.cell[p], First(m, p[1]), 1000)
                 ELSE 0]]

\* (mutant) ratios above 1 are cut to 1
retention_clipped(m) ==
    LET r == normalize(m, first_positive)
    IN  [r EXCEPT !.cell = [p \in DOMAIN r.cell |->
                               IF r.cell[p] > 1000 THEN 1000 ELSE r.cell[p]]]

retention_of(m) == normalize(m, first_positive)

Retention ==
    /\ pc = "metrics_retention"
    /\ retention_matrix' = retention_of(cohort_usage_matrix)
    /\ pc' = "metrics_filtered_retention"
    /\ UNCHANGED <<inputs, history, report, disk, files1, files2, merged_cash_fee_cohort_csv, mem1, mem2,
                   merged_cash_fee_cohort, cohort_usage_matrix,
                   filtered_retention_matrix, incident_df, cohort_revenue,
                   revenue_df, arpu_df, clv_df>>

\* In[15]: drop the partial months, divide each row by its own month's cell
partial_months == {Ym(2019, 11), Ym(2020, 11)}

drop_partial(m) ==
    LET idx == m.index \ partial_months
        cols == m.columns \ partial_months
    IN  [index |-> idx, columns |-> cols,
         cell |-> [p \in idx \X cols |-> m.cell[p]]]

\* (mutant) the row's first column as denominator
first_column_value(m, c) == IF m.columns = {} THEN 0 ELSE m.cell[<<c, Min(m.columns)>>]

own_month_value(m, c) == IF c \in m.columns THEN m.cell[<<c, c>>] ELSE 0

filtered_retention_of(m) == normalize(drop_partial(m), own_month_value)

\* the matrix is saved, then drawn
FilteredRetention ==
    /\ pc = "metrics_filtered_retention"
    /\ filtered_retention_matrix' = filtered_retention_of(cohort_usage_matrix)
    /\ pc' = IF heatmap_raises(filtered_retention_matrix')
             THEN "metrics_filtered_raised" ELSE "metrics_incident"
    /\ UNCHANGED <<inputs, history, report, disk, files1, files2, merged_cash_fee_cohort_csv, mem1, mem2,
                   merged_cash_fee_cohort, cohort_usage_matrix, retention_matrix,
                   incident_df, cohort_revenue, revenue_df, arpu_df, clv_df>>

\* In[17]: incident rate per cohort, 4 decimals
cohorts_of(t) == {t[i].cohort_year_month : i \in DOMAIN t} \ {NaN}

incident_row(t, c) ==
    LET total == group_size(t, LAMBDA r : r.cohort_year_month, c)
        inc == group_size(SelectSeq(t, LAMBDA r : r.incident_flag = "incident"),
                          LAMBDA r : r.cohort_year_month, c)
    IN  [cohort_year_month |-> c, total_requests |-> total,
         incident_requests |-> inc,
         incident_rate |-> RoundDiv(inc, total, 10000)]

incident_table(t) ==
    LET keys == SortedSeq(cohorts_of(t))
    IN  [k \in DOMAIN keys |-> incident_row(t, keys[k])]

Incident ==
    /\ pc = "metrics_incident"
    /\ incident_df' = incident_table(merged_cash_fee_cohort)
    /\ pc' = "metrics_revenue"
    /\ UNCHANGED <<inputs, history, report, disk, files1, files2, merged_cash_fee_cohort_csv, mem1, mem2,
                   merged_cash_fee_cohort, cohort_usage_matrix, retention_matrix,
                   filtered_retention_matrix, cohort_revenue, revenue_df,
                   arpu_df, clv_df>>

\* In[19]: reload merged_cash_fee_cohort.csv, keep the accepted fees,
\* groupby('cohort_year_month')['total_amount'].sum()
read_cohort_csv(t) == read_merged_csv(t)

\* (mutant) no status filter: every fee counts as revenue
all_fees_of(t) == SelectSeq(t, LAMBDA r : r.fee_status # NaNStr)

accepted_fees_of(t) == SelectSeq(t, LAMBDA r : r.fee_status = "accepted")

\* Series.sum() of a group: missing amounts are skipped
group_sum(t, c) ==
    LET g == SelectSeq(t, LAMBDA r : r.cohort_year_month = c /\ r.total_amount # NaN)
    IN  SeqSum([i \in DOMAIN g |-> g[i].total_amount * g[i].n])

revenue_table(t) ==
    LET acc == accepted_fees_of(t)
        keys == SortedSeq(cohorts_of(acc))
    IN  [k \in DOMAIN keys |->
            [cohort_year_month |-> keys[k], cohort_revenue |-> group_sum(acc, keys[k])]]

Revenue ==
    /\ pc = "metrics_revenue"
    /\ "merged_cash_fee_cohort" \in disk
    /\ merged_df' = read_cohort_csv(merged_cash_fee_cohort_csv)
    /\ cohort_revenue' = revenue_table(merged_df')
    /\ pc' = "metrics_cumulative"
    /\ UNCHANGED <<inputs, history, report, disk, files1, files2, merged_cash_fee_cohort_csv, mem1,
                   user_first_request, merged_cash_fee_cohort,
                   cohort_usage_matrix, retention_matrix,
                   filtered_retention_matrix, incident_df, revenue_df, arpu_df,
                   clv_df>>

\* In[21]: sort_values('cohort_year_month'), cumsum()
\* (mutant) the running maximum instead of the running sum
cummax(t) ==
    [k \in DOMAIN t |->
        t[k] @@ [cumulative_revenue |->
                   LET vals == {t[j].cohort_revenue : j \in 1..k}
                   IN  CHOOSE x \in vals : \A y \in vals : y <= x]]

cumsum(t) ==
    [k \in DOMAIN t |->
        t[k] @@ [cumulative_revenue |->
                   SeqSum([j \in 1..k |-> t[j].cohort_revenue])]]

Cumulative ==
    /\ pc = "metrics_cumulative"
    /\ revenue_df' = cumsum(cohort_revenue)
    /\ pc' = "metrics_arpu"
    /\ UNCHANGED <<inputs, history, report, disk, files1, files2, merged_cash_fee_cohort_csv, mem1, mem2,
                   merged_cash_fee_cohort, cohort_usage_matrix, retention_matrix,
                   filtered_retention_matrix, incident_df, cohort_revenue,
                   arpu_df, clv_df>>

\* In[23]: users per cohort from user_first_request.csv, ARPU to 2 decimals
\* (mutant) counts the transaction rows of the cohort instead of its users
user_count_rows(ufr, c) == group_size(merged_df, LAMBDA r : r.cohort_year_month, c)

user_count(ufr, c) == group_size(ufr, LAMBDA u : u.cohort_year_month, c)

arpu_row(r, ufr) ==
    LET cnt == user_count(ufr, r.cohort_year_month)
    IN  r @@ [user_count |-> IF cnt = 0 THEN NaN ELSE cnt,
              arpu |-> IF cnt = 0 THEN NaN ELSE RoundDiv(r.cohort_revenue, cnt, 100)]

arpu_table(rev, ufr) == [k \in DOMAIN rev |-> arpu_row(rev[k], ufr)]

Arpu ==
    /\ pc = "metrics_arpu"
    /\ user_first_request' = user_first_request_csv
    /\ arpu_df' = arpu_table(cohort_revenue, user_first_request')
    /\ pc' = "metrics_clv"
    /\ UNCHANGED <<inputs, history, report, disk, files1, files2, merged_cash_fee_cohort_csv, mem1,
                   merged_df, merged_cash_fee_cohort, cohort_usage_matrix,
                   retention_matrix, filtered_retention_matrix, incident_df,
                   cohort_revenue, revenue_df, clv_df>>

\* In[25]: months with a positive filtered retention, CLV = ARPU * months,
\* partial cohorts removed
avg_retention_months_of(ret, c) ==
    IF c \in ret.index
    THEN Cardinality({m \in ret.columns : ret.cell[<<c, m>>] > 0})
    ELSE NaN

clv_row(r, ret) ==
    LET months == avg_retention_months_of(ret, r.cohort_year_month)
    IN  r @@ [avg_retention_months |-> months,
              clv |-> IF months = NaN \/ r.arpu = NaN THEN NaN ELSE r.arpu * months]

clv_table(arpu, ret) ==
    SelectSeq([k \in DOMAIN arpu |-> clv_row(arpu[k], ret)],
              LAMBDA r : r.cohort_year_month \notin partial_months)

Clv ==
    /\ pc = "metrics_clv"
    /\ clv_df' = clv_table(arpu_df, filtered_retention_matrix)
    /\ pc' = "done"
    /\ UNCHANGED <<inputs, history, report, disk, files1, files2, merged_cash_fee_cohort_csv, mem1, mem2,
                   merged_cash_fee_cohort, cohort_usage_matrix, retention_matrix,
                   filtered_retention_matrix, incident_df, cohort_revenue,
                   revenue_df, arpu_df>>

\* ------------------------------------------------------------------------
\* The pipeline
\* ------------------------------------------------------------------------
Next ==
    \/ LoadRaw
    \/ ConvertDatetime
    \/ DetectAnomalies
    \/ ResolveConflict
    \/ UnifyIdentity
    \/ CheckUnmatched
    \/ DropNullFees
    \/ CleanCategorical
    \/ ValidateMonetary
    \/ SaveCleaned
    \/ LoadCleaned
    \/ EdaIncidentFlag
    \/ RenameAndMerge
    \/ UserFirstRequest
    \/ SaveEda
    \/ LoadEda
    \/ CohortMerge
    \/ SaveCohort
    \/ Usage
    \/ Retention
    \/ FilteredRetention
    \/ Incident
    \/ Revenue
    \/ Cumulative
    \/ Arpu
    \/ Clv

\* ------------------------------------------------------------------------
\* A script whose input file is missing stops at its load step
\* ------------------------------------------------------------------------
\* the tables the pipeline writes
Outputs ==
    <<disk, clean_cash_csv, clean_fees_csv, user_first_request_csv,
      merged_cash_fee_csv, merged_cash_fee_cohort_csv, cohort_usage_matrix,
      retention_matrix, filtered_retention_matrix, incident_df, cohort_revenue,
      revenue_df, arpu_df, clv_df>>

\* script 1, In[2]: the cash requests are read first, the fees second; the
\* FileNotFoundError of the first missing file is reported and raised again.
\* cash_df is bound when only the file of the fees is missing; the script
\* is a new process, in which nothing else is bound.
LoadRawFails ==
    /\ pc = "clean_load"
    /\ ~(RawFiles \subseteq disk)
    /\ cash_df' = IF "cash_request" \in disk THEN read_cash_csv(raw_cash) ELSE <<>>
    /\ fees_df' = <<>>
    /\ unmatched_ids' = <<>>
    /\ merged_df' = <<>>
    /\ user_first_request' = <<>>
    /\ pc' = "clean_failed"
    /\ UNCHANGED <<inputs, history, report, disk, files1, files2,
                   merged_cash_fee_cohort_csv, mem3>>

\* script 2, In[3]: the cleaned cash requests are read first, the cleaned
\* fees second; FileNotFoundError is reported, sys.exit(1).  cash_df is
\* bound when only the file of the fees is missing; the script is a new
\* process, which holds none of the tables of the cleaning script.
LoadCleanedFails ==
    /\ pc = "eda_load"
    /\ ~(CleanFiles \subseteq disk)
    /\ cash_df' = IF "clean_cash_requests" \in disk
                  THEN read_cash_csv(clean_cash_csv) ELSE <<>>
    /\ fees_df' = <<>>
    /\ unmatched_ids' = <<>>
    /\ merged_df' = <<>>
    /\ user_first_request' = <<>>
    /\ pc' = "eda_failed"
    /\ UNCHANGED <<inputs, history, report, disk, files1, files2,
                   merged_cash_fee_cohort_csv, mem3>>

\* script 3, In[2]: the files are read in a loop into a dictionary; the
\* FileNotFoundError of the first missing file is reported and raised again
\* before any table is taken out of the dictionary: the script, a new
\* process, has bound no table
LoadEdaFails ==
    /\ pc = "metrics_load"
    /\ ~(EdaFiles \subseteq disk)
    /\ cash_df' = <<>>
    /\ fees_df' = <<>>
    /\ unmatched_ids' = <<>>
    /\ merged_df' = <<>>
    /\ user_first_request' = <<>>
    /\ pc' = "metrics_failed"
    /\ UNCHANGED <<inputs, history, report, disk, files1, files2,
                   merged_cash_fee_cohort_csv, mem3>>

\* script 3, In[19]: pd.read_csv(merged_path) raises FileNotFoundError, the
\* tables written so far stay on disk
RevenueFails ==
    /\ pc = "metrics_revenue"
    /\ "merged_cash_fee_cohort" \notin disk
    /\ pc' = "revenue_failed"
    /\ UNCHANGED <<inputs, history, report, disk, files1, files2,
                   merged_cash_fee_cohort_csv, mem1, mem2, mem3>>

\* the positions at which a script has ended with an error
RaisedInClean == {"clean_failed"}
RaisedInEda ==
    {"eda_failed", "eda_plots_raised", "eda_volume_raised", "eda_incident_raised",
     "eda_merge_raised",
     "eda_share_raised"}

\* The scripts are started one after the other: the next one is started
\* although the one before it ended with an error.  The files stay on
\* disk, the tables in the memory of the ended process are gone.
StartNextScript ==
    /\ pc \in RaisedInClean \cup RaisedInEda
    /\ pc' = IF pc \in RaisedInClean THEN "eda_load" ELSE "metrics_load"
    /\ cash_df' = <<>>
    /\ fees_df' = <<>>
    /\ unmatched_ids' = <<>>
    /\ merged_df' = <<>>
    /\ user_first_request' = <<>>
    /\ UNCHANGED <<inputs, history, report, disk, files1, files2,
                   merged_cash_fee_cohort_csv, mem3>>

\* Between two scripts one of the files the next script reads is removed
\* from the folder
RemoveFile ==
    /\ pc \in {"eda_load", "metrics_load"}
    /\ (IF pc = "eda_load" THEN CleanFiles ELSE EdaFiles) \subseteq disk
    /\ \E f \in (IF pc = "eda_load" THEN CleanFiles ELSE EdaFiles) : disk' = disk \ {f}
    /\ UNCHANGED <<inputs, history, report, pc, files1, files2,
                   merged_cash_fee_cohort_csv, mem1, mem2, mem3>>

NextMissing ==
    \/ Next
    \/ LoadRawFails
    \/ LoadCleanedFails
    \/ LoadEdaFails
    \/ RevenueFails
    \/ RemoveFile
    \/ StartNextScript

\* ------------------------------------------------------------------------
\* The three scripts are run again on the same raw extracts
\* ------------------------------------------------------------------------
\* the files stay on disk, the tables in the memory of the finished
\* processes are gone
Rerun ==
    /\ pc = "done"
    /\ run < MaxRuns
    /\ run' = run + 1
    /\ first_run' = IF run = 1 THEN Outputs ELSE first_run
    /\ pc' = "clean_load"
    /\ cash_df' = <<>>
    /\ fees_df' = <<>>
    /\ unmatched_ids' = <<>>
    /\ merged_df' = <<>>
    /\ user_first_request' = <<>>
    /\ merged_cash_fee_cohort' = <<>>
    /\ report' = NoReport
    /\ UNCHANGED <<inputs, disk, files1, files2, merged_cash_fee_cohort_csv,
                   cohort_usage_matrix, retention_matrix,
                   filtered_retention_matrix, incident_df, cohort_revenue,
                   revenue_df, arpu_df, clv_df>>

NextRerun ==
    \/ Next
    \/ Rerun

\* ------------------------------------------------------------------------
\* The three scripts are run on a new delivery of the cash request extract
\* ------------------------------------------------------------------------
NewExtract(cash, header) ==
    /\ pc = "done"
    /\ run < MaxRuns
    /\ run' = run + 1
    /\ raw_cash' = cash
    /\ cash_header' = header
    /\ pc' = "clean_load"
    /\ cash_df' = <<>>
    /\ fees_df' = <<>>
    /\ unmatched_ids' = <<>>
    /\ merged_df' = <<>>
    /\ user_first_request' = <<>>
    /\ merged_cash_fee_cohort' = <<>>
    /\ report' = NoReport
    /\ UNCHANGED <<raw_fees, first_run, disk, files1, files2,
                   merged_cash_fee_cohort_csv, cohort_usage_matrix,
                   retention_matrix, filtered_retention_matrix, incident_df,
                   cohort_revenue, revenue_df, arpu_df, clv_df>>

\* Position of the run: the steps in the order the scripts execute them
Steps ==
    <<"clean_load", "clean_datetime", "clean_detect", "clean_conflict",
      "clean_final_user_id", "clean_unmatched", "clean_drop_fees",
      "clean_categorical", "clean_monetary", "clean_save",
      "eda_load", "eda_incident_flag", "eda_merge", "eda_first_request",
      "eda_save", "metrics_load", "metrics_cohort_merge", "metrics_save_cohort",
      "metrics_usage", "metrics_retention", "metrics_filtered_retention",
      "metrics_incident", "metrics_revenue", "metrics_cumulative",
      "metrics_arpu", "metrics_clv", "done">>

At(p) == CHOOSE i \in DOMAIN Steps : Steps[i] = p

\* a script that stopped at its load step has executed none of its steps
\* a script that raised in the cells of a step has executed the
\* assignments of the step that come before the exception
StagePc(p) ==
    CASE p = "clean_failed"   -> "clean_load"
      [] p = "eda_failed"     -> "eda_load"
      [] p = "metrics_failed" -> "metrics_load"
      [] p = "revenue_failed" -> "metrics_revenue"
      [] p = "eda_plots_raised"        -> "eda_incident_flag"
      [] p = "eda_volume_raised"       -> "eda_incident_flag"
      [] p = "eda_incident_raised"     -> "eda_merge"
      [] p = "eda_merge_raised"        -> "eda_first_request"
      [] p = "eda_share_raised"        -> "eda_save"
      [] p = "metrics_usage_raised"    -> "metrics_retention"
      [] p = "metrics_filtered_raised" -> "metrics_incident"
      [] OTHER                -> p

\* the step that starts at position p has been executed
Done(p) == At(StagePc(pc)) > At(p)

\* ------------------------------------------------------------------------
\* Input tables of the specifications
\* ------------------------------------------------------------------------
Dec20 == Ts(2019, 12, 20)
Jan05 == Ts(2020, 1, 5)
Nov19 == Ts(2019, 11, 19)
Nov20 == Ts(2020, 11, 2)
Jan25 == Ts(2025, 1, 7)
Oct05 == Ts(2019, 10, 5)

\* Spec: requests of two users in two months, one request without a readable
\* date, one without any user id; fees on request 1
CashRows ==
    {CashRow(1, 1, NaN, Dec20, NaNStr, 1), CashRow(1, 1, NaN, Jan05, NaNStr, 1),
     CashRow(2, 1, NaN, Dec20, NaNStr, 1)}
    \cup {CashRow(1, 2, NaN, Dec20, NaNStr, 1), CashRow(2, 2, NaN, Jan05, NaNStr, 1)}
    \cup {CashRow(2, 1, NaN, BadDate, NaNStr, 1), CashRow(2, NaN, NaN, Jan05, NaNStr, 1)}

FeeRows ==
    {FeeRow(1, "accepted", 5, 1), FeeRow(1, "rejected", 5, 2)}

Init == InitOn(CashRows, FeeRows)

Spec == Init /\ [][Next]_vars

\* SpecRevenue: fees of several statuses and amounts, with and without a
\* parent request; request ids may repeat
CashRowsRevenue ==
    {CashRow(1, 1, NaN, Dec20, NaNStr, 1), CashRow(1, 2, NaN, Jan05, NaNStr, 1),
     CashRow(2, 2, NaN, Jan05, NaNStr, 1)}

FeeRowsRevenue ==
    {FeeRow(1, "Accepted ", 5, 1), FeeRow(1, "accepted", 10, 2),
     FeeRow(1, "rejected", 5, 1), FeeRow(2, "confirmed", 10, 1),
     FeeRow(3, "accepted", 5, 1)}

InitRevenue == InitOn(CashRowsRevenue, FeeRowsRevenue)

SpecRevenue == InitRevenue /\ [][Next]_vars

\* SpecIdentity: every combination of present and missing user_id and
\* deleted_account_id
CashRowsIdentity ==
    {CashRow(1, u, d, IF u = NaN THEN Jan05 ELSE Dec20, NaNStr, 1) :
        u \in {NaN, 1, 2}, d \in {NaN, 1, 2}}

InitIdentity == InitOn(CashRowsIdentity, {FeeRow(1, "accepted", 5, 1)})

SpecIdentity == InitIdentity /\ [][Next]_vars

\* SpecLink: fees that reference a request, a missing request, or nothing
CashRowsLink ==
    {CashRow(1, 1, NaN, Dec20, NaNStr, 1), CashRow(1, 1, NaN, Jan05, NaNStr, 1),
     CashRow(2, 1, NaN, Jan05, NaNStr, 1)}

FeeRowsLink ==
    {FeeRow(crid, "accepted", 5, 1) : crid \in {1, 2, 3, NaN}}
    \cup {FeeRow(1, "rejected", 10, 1)}

InitLink == InitOn(CashRowsLink, FeeRowsLink)

SpecLink == InitLink /\ [][Next]_vars

\* SpecClv: cohorts inside and outside the partial months, a request
\* before the first of them, a request with very many fees
CashRowsClv ==
    {CashRow(id, u, NaN, t, NaNStr, 1) : id \in {1, 2}, u \in {1, 2}, t \in {Dec20, Jan05}}
    \cup {CashRow(id, 1, NaN, Nov19, NaNStr, 1) : id \in {1, 2}}
    \cup {CashRow(1, 2, NaN, Oct05, NaNStr, 1)}

FeeRowsClv ==
    {FeeRow(1, "accepted", 5, 1), FeeRow(1, "accepted", 5, BigCount),
     FeeRow(2, "accepted", 5, 1), FeeRow(1, "rejected", 5, 2)}

InitClv == InitOn(CashRowsClv, FeeRowsClv)

SpecClv == InitClv /\ [][Next]_vars

\* SpecArpu: up to three requests of up to three users, in one or two
\* cohorts; accepted fees on the requests of user 1 only
CashRowsArpu ==
    {CashRow(u, u, NaN, Dec20, NaNStr, 1) : u \in 1..3}
    \cup {CashRow(1, 1, NaN, Jan05, NaNStr, 1)}

FeeRowsArpu ==
    {FeeRow(1, "accepted", 5, 1), FeeRow(1, "accepted", 5, 2)}

InitArpu ==
    /\ raw_cash \in Extracts(CashRowsArpu, MaxUsers, BaseCash)
    /\ raw_fees \in Extracts(FeeRowsArpu, MaxFee, BaseFees)
    /\ InitRest

SpecArpu == InitArpu /\ [][Next]_vars

\* SpecIncident: requests with and without a recovery record, written in
\* several spellings in the raw extract; fees fan some requests out
CashRowsIncident ==
    {CashRow(1, 1, NaN, Dec20, rs, 1) : rs \in {NaNStr, "Completed", "NULL ", " NaN "}}
    \cup {CashRow(2, 2, NaN, Jan05, rs, 1) : rs \in {NaNStr, "Completed"}}
    \cup {CashRow(2, 1, NaN, Jan05, "Completed", 2)}

FeeRowsIncident ==
    {FeeRow(1, "accepted", 5, 2), FeeRow(2, "rejected", 5, 1)}

InitIncident == InitOn(CashRowsIncident, FeeRowsIncident)

SpecIncident == InitIncident /\ [][Next]_vars

\* SpecCumulative: accepted fees with positive and with negative amounts on
\* the requests of two cohorts
CashRowsCumulative ==
    {CashRow(1, 1, NaN, Dec20, NaNStr, 1), CashRow(1, 2, NaN, Jan05, NaNStr, 1),
     CashRow(2, 2, NaN, Jan05, NaNStr, 1)}

FeeRowsCumulative ==
    {FeeRow(1, "accepted", 5, 1), FeeRow(1, "accepted", -5, 2),
     FeeRow(2, "accepted", 10, 1), FeeRow(2, "accepted", -5, 1),
     FeeRow(2, "rejected", -5, 1)}

InitCumulative == InitOn(CashRowsCumulative, FeeRowsCumulative)

SpecCumulative == InitCumulative /\ [][Next]_vars

\* requests of cohorts in both partial months and in the months between
CashRowsPartial ==
    {CashRow(1, 1, NaN, Nov19, NaNStr, 1), CashRow(1, 1, NaN, Dec20, NaNStr, 1),
     CashRow(2, 2, NaN, Dec20, NaNStr, 1), CashRow(2, 2, NaN, Jan05, NaNStr, 1),
     CashRow(2, 1, NaN, Nov20, NaNStr, 1)}

\* SpecRerun: repeated runs over extracts with unreadable dates, deleted
\* accounts, categorical texts in several spellings and fees without a
\* request
CashRowsRerun ==
    {CashRow(1, 1, NaN, Dec20, NaNStr, 1), CashRow(2, 1, NaN, Jan05, "NULL ", 1),
     CashRow(2, 2, NaN, BadDate, "Completed", 1), CashRow(1, NaN, 2, Jan05, NaNStr, 2)}

FeeRowsRerun ==
    {FeeRow(1, "Accepted ", 5, 1), FeeRow(2, "accepted", 10, 2),
     FeeRow(3, "rejected", 5, 1)}

InitRerun == InitOn(CashRowsRerun, FeeRowsRerun)

SpecRerun == InitRerun /\ [][NextRerun]_vars

\* SpecMissing: any of the three scripts is started, with each raw extract
\* present or missing and no output of an earlier run on disk.  The
\* extracts are the ones a script runs to the end on and ones on which a
\* cell of the second or the third script raises.
\* no request went through recovery
CashNoIncident ==
    [i \in DOMAIN BaseCash |-> [BaseCash[i] EXCEPT !.recovery_status = NaNStr]]

\* no request in November 2020
CashNoNovember == SubSeq(BaseCash, 1, 2)

\* every transfer is instant
CashOneTransferType ==
    [i \in DOMAIN BaseCash |-> [BaseCash[i] EXCEPT !.transfer_type = "instant"]]

\* the requests with a date have no user, the request of the user has no
\* date: no request has a cohort and a month
CashNoCohortMonth ==
    <<[BaseCash[1] EXCEPT !.user_id = NaN],
      [BaseCash[2] EXCEPT !.created_at = BadDate],
      [BaseCash[3] EXCEPT !.user_id = NaN]>>

\* every user made the first request in a partial month
CashPartialCohorts ==
    <<BaseCash[1], [BaseCash[2] EXCEPT !.created_at = Ts(2020, 11, 1)], BaseCash[3]>>

\* no request has a readable date
CashNoDates ==
    [i \in DOMAIN BaseCash |-> [BaseCash[i] EXCEPT !.created_at = BadDate]]

CashExtractsMissing ==
    {s \o BaseCash : s \in SeqsUpTo(CashRowsLink, 1)}
    \cup {CashNoIncident, CashNoNovember, CashOneTransferType, CashNoCohortMonth,
          CashPartialCohorts, CashNoDates}

\* the fee of a request; a fee of a request that is not in the extract; a
\* fee without a request id, which the cleaning drops
FeeExtractsMissing ==
    {BaseFees, <<FeeRow(3, "accepted", 5, 1)>>, <<FeeRow(NaN, "accepted", 5, 1)>>}

InitMissing ==
    /\ pc \in {"clean_load", "eda_load", "metrics_load"}
    /\ cash_header \in CashHeaders
    /\ disk \in SUBSET RawFiles
    /\ raw_cash \in (IF "cash_request" \in disk THEN CashExtractsMissing ELSE {<<>>})
    /\ raw_fees \in (IF "fees" \in disk THEN FeeExtractsMissing ELSE {<<>>})
    /\ InitTables

SpecMissing == InitMissing /\ [][NextMissing]_vars

\* SpecFiltered: up to MaxRequests requests inside and outside the partial
\* months, one request fanned out by a fee
InitFiltered ==
    /\ raw_cash \in Extracts(CashRowsPartial, MaxRequests, BaseCash)
    /\ raw_fees \in Extracts({FeeRow(2, "accepted", 5, 2)}, MaxFee, BaseFees)
    /\ InitRest

SpecFiltered == InitFiltered /\ [][Next]_vars

\* SpecRatio: cohorts with a later month that has a little more than, twice
\* or fewer rows than the entry month: BigCount requests of user 3 in
\* 2020-01 and one more in 2020-02, two requests of user 92 in 2020-07, a
\* request of user 1 that a fee fans out
CashRowsRatio ==
    {CashRow(3, 3, NaN, Jan05, NaNStr, BigCount),
     CashRow(4, 3, NaN, Ts(2020, 2, 3), NaNStr, BigCount + 1),
     CashRow(5, 92, NaN, Ts(2020, 7, 1), NaNStr, 2),
     CashRow(1, 1, NaN, Dec20, NaNStr, 2), CashRow(2, 1, NaN, Jan05, NaNStr, 1)}

InitRatio ==
    /\ raw_cash \in Extracts(CashRowsRatio, MaxRequests, BaseCash)
    /\ raw_fees \in Extracts({FeeRow(2, "accepted", 5, 2)}, MaxFee, BaseFees)
    /\ InitRest

SpecRatio == InitRatio /\ [][Next]_vars

\* SpecSchema: the cash request extract comes with the columns of
\* variable_types or with reason and cash_request_debited_date as well, and
\* is delivered again after a run
CashRowsSchema ==
    {CashRow(1, 1, NaN, Dec20, NaNStr, 1), CashRow(2, 1, NaN, Jan05, NaNStr, 1)}

FeeRowsSchema == {FeeRow(1, "accepted", 5, 1)}


InitSchema ==
    /\ TypeInputs(CashRowsSchema, FeeRowsSchema)
    /\ cash_header \in CashHeaders
    /\ pc = "clean_load"
    /\ disk = RawFiles
    /\ InitTables

NextSchema ==
    \/ Next
    \/ RevenueFails
    \/ \E cash \in Extracts(CashRowsSchema, MaxCash, BaseCash) :
          \E header \in CashHeaders : NewExtract(cash, header)

SpecSchema == InitSchema /\ [][NextSchema]_vars

\* SpecDetect: requests with repeated ids; a request created on the cutoff
\* day at midnight and one created at ten o'clock, a request updated after
\* the cutoff, a reimbursement date that is not a date; fees without a key,
\* with amounts that are not positive, and a fee paid at midnight of the
\* cutoff day whose period ends after it
CashRowsDetect ==
    {CashRow(2, 2, NaN, Ts(2024, 12, 12), NaNStr, 1),
     CashRow(2, 2, NaN, TsAt(2024, 12, 12, 10), NaNStr, 1),
     [CashRow(1, 1, NaN, Jan05, NaNStr, 1) EXCEPT !.updated_at = Jan25],
     [CashRow(1, 1, NaN, Dec20, NaNStr, 1) EXCEPT !.reimbursement_date = BadDate]}

FeeRowsDetect ==
    {FeeRow(NaN, "accepted", 5, 2),
     FeeRow(2, "accepted", -5, 1), FeeRow(3, "accepted", 0, 1),
     [FeeRow(1, "accepted", 5, 1) EXCEPT !.paid_at = Ts(2024, 12, 12),
                                         !.to_date = Jan25]}

InitDetect == InitOn(CashRowsDetect, FeeRowsDetect)

SpecDetect == InitDetect /\ [][Next]_vars

\* ------------------------------------------------------------------------
\* What the raw extracts say, read off the inputs without running the pipeline
\* ------------------------------------------------------------------------
RawUser(r) == IF r.user_id # NaN THEN r.user_id ELSE r.deleted_account_id

RawParsed(r) == r.created_at # NaN /\ r.created_at # BadDate

YearMonth(t) == t \div (24 * 32)

\* the month of the earliest readable request of user u ("NaT" when none is)
ExpectedCohort(u) ==
    LET mine == {i \in DOMAIN raw_cash : RawUser(raw_cash[i]) = u /\ RawParsed(raw_cash[i])}
    IN  IF mine = {} THEN NaTStr
        ELSE LET first == CHOOSE i \in mine :
                    \A j \in mine : raw_cash[i].created_at <= raw_cash[j].created_at
             IN  YearMonth(raw_cash[first].created_at)

\* number of fee rows the cleaning keeps that reference request id
RawFeeRows(id) ==
    NRows(SelectSeq(raw_fees, LAMBDA f : f.cash_request_id = id /\ f.cash_request_id # NaN))

\* rows the left join makes of one raw cash row
RawFanOut(r) == r.n * (IF RawFeeRows(r.id) = 0 THEN 1 ELSE RawFeeRows(r.id))

RowsOfUser(t, u) == SelectSeq(t, LAMBDA r : r.final_user_id = u)

UsersOf(t) == {t[i].final_user_id : i \in DOMAIN t} \ {NaN}

\* ------------------------------------------------------------------------
\* C1: after the cohort join every user of the cohort-tagged table carries
\* exactly one cohort value over all of its rows.
\* ------------------------------------------------------------------------
CohortConsistency ==
    Done("metrics_cohort_merge") =>
        \A u \in UsersOf(merged_cash_fee_cohort) :
            LET cs == {r.cohort_year_month : r \in Range(RowsOfUser(merged_cash_fee_cohort, u))}
            IN  Cardinality(cs) = 1 /\ NaN \notin cs

\* a user with requests in two different months, one of them with fees
CohortConsistencyWitness ==
    /\ Done("metrics_cohort_merge")
    /\ \E u \in UsersOf(merged_cash_fee_cohort) :
          /\ Cardinality({r.year_month : r \in Range(RowsOfUser(merged_cash_fee_cohort, u))} \ {NaN}) = 2
          /\ NRows(RowsOfUser(merged_cash_fee_cohort, u)) > 2

\* ------------------------------------------------------------------------
\* C2: the cohort of a user is the calendar month of the earliest created_at
\* of its cash requests, and every joined row of the user carries it.
\* ------------------------------------------------------------------------
CohortIsFirstMonth ==
    /\ Done("eda_first_request") /\ ~Done("eda_save") =>
          \A k \in DOMAIN user_first_request :
              user_first_request[k].cohort_year_month
                  = ExpectedCohort(user_first_request[k].final_user_id)
    /\ Done("metrics_cohort_merge") =>
          \A i \in DOMAIN merged_cash_fee_cohort :
              merged_cash_fee_cohort[i].final_user_id # NaN =>
                  merged_cash_fee_cohort[i].cohort_year_month
                      = ExpectedCohort(merged_cash_fee_cohort[i].final_user_id)

\* a user whose earliest request is the second row of the table and lies in
\* an earlier month than its first row; the later request has fees
CohortIsFirstMonthWitness ==
    /\ Done("metrics_cohort_merge")
    /\ Len(raw_cash) = 2 + Len(BaseCash)
    /\ RawUser(raw_cash[1]) = RawUser(raw_cash[2])
    /\ RawParsed(raw_cash[1]) /\ RawParsed(raw_cash[2])
    /\ YearMonth(raw_cash[2].created_at) < YearMonth(raw_cash[1].created_at)
    /\ \E i \in DOMAIN merged_cash_fee_cohort :
          /\ merged_cash_fee_cohort[i].fee_status # NaNStr
          /\ merged_cash_fee_cohort[i].cohort_year_month = YearMonth(raw_cash[2].created_at)
          /\ merged_cash_fee_cohort[i].year_month = YearMonth(raw_cash[1].created_at)

\* ------------------------------------------------------------------------
\* C3: in the unfiltered retention matrix a row is divided by its entry-month
\* cell (3 decimals), the entry-month cell is 1.0, a row without entry-month
\* activity is all 0.0; the first positive cell of a row is its entry month.
\* ------------------------------------------------------------------------
OwnMonth(U, c) == IF c \in U.columns THEN U.cell[<<c, c>>] ELSE 0

RetentionNormalized ==
    Done("metrics_retention") =>
        LET U == cohort_usage_matrix
            R == retention_matrix
        IN  /\ R.index = U.index /\ R.columns = U.columns
            /\ \A c \in U.index :
                 /\ OwnMonth(U, c) > 0 =>
                       /\ R.cell[<<c, c>>] = 1000
                       /\ \A m \in U.columns :
                            R.cell[<<c, m>>] = RoundDiv(U.cell[<<c, m>>], OwnMonth(U, c), 1000)
                 /\ OwnMonth(U, c) = 0 => \A m \in U.columns : R.cell[<<c, m>>] = 0
                 /\ (\E m \in U.columns : U.cell[<<c, m>>] > 0) =>
                       /\ OwnMonth(U, c) > 0
                       /\ \A m \in U.columns : m < c => U.cell[<<c, m>>] = 0

\* a cohort that is less active (or more active) in a later month than in
\* its entry month
RetentionNormalizedWitness ==
    /\ Done("metrics_retention")
    /\ \E c \in cohort_usage_matrix.index : \E m \in cohort_usage_matrix.columns :
          /\ m > c
          /\ OwnMonth(cohort_usage_matrix, c) > 0
          /\ retention_matrix.cell[<<c, m>>] \notin {0, 1000}

\* ------------------------------------------------------------------------
\* C4: the usage cell of cohort c and month m is the number of joined rows
\* (request x fee, fan-out included) of that cohort created in that month,
\* and a pair of the matrix without such a row holds 0.
\* ------------------------------------------------------------------------
ExpectedUsage(c, m) ==
    LET rows == SelectSeq(raw_cash, LAMBDA r :
                    /\ RawUser(r) # NaN
                    /\ RawParsed(r)
                    /\ ExpectedCohort(RawUser(r)) = c
                    /\ YearMonth(r.created_at) = m)
    IN  SeqSum([i \in DOMAIN rows |-> RawFanOut(rows[i])])

RawMonths == {YearMonth(raw_cash[i].created_at) : i \in {j \in DOMAIN raw_cash : RawParsed(raw_cash[j])}}

UsageCountsRows ==
    Done("metrics_usage") =>
        LET U == cohort_usage_matrix
        IN  /\ \A c \in U.index : \A m \in U.columns :
                 /\ U.cell[<<c, m>>] = ExpectedUsage(c, m)
                 /\ U.cell[<<c, m>>] =
                        NRows(SelectSeq(merged_cash_fee_cohort, LAMBDA r :
                                 r.cohort_year_month = c /\ r.year_month = m))
            /\ \A c \in RawMonths : \A m \in RawMonths :
                 ExpectedUsage(c, m) > 0 => c \in U.index /\ m \in U.columns

\* a matrix with a cell that counts the fan-out of a request with several
\* fees and a cell of a pair without rows
UsageCountsRowsWitness ==
    /\ Done("metrics_usage")
    /\ \E c \in cohort_usage_matrix.index : \E m \in cohort_usage_matrix.columns :
          cohort_usage_matrix.cell[<<c, m>>] >= 3
    /\ \E c \in cohort_usage_matrix.index : \E m \in cohort_usage_matrix.columns :
          cohort_usage_matrix.cell[<<c, m>>] = 0

\* ------------------------------------------------------------------------
\* C5: the revenue of a cohort is the sum of total_amount over the accepted
\* fees of the cleaned fee table whose parent request belongs to a user of
\* the cohort, each such fee counted exactly once; other statuses
\* contribute nothing.
\* ------------------------------------------------------------------------
RevenueOf(c) ==
    LET rows == SelectSeq(cohort_revenue, LAMBDA r : r.cohort_year_month = c)
    IN  IF rows = <<>> THEN 0 ELSE rows[1].cohort_revenue

Listed(t, c) == \E k \in DOMAIN t : t[k].cohort_year_month = c

\* the cleaned cash requests that are parents of fee f and belong to cohort c
ParentsIn(f, c) ==
    SelectSeq(clean_cash_csv, LAMBDA r :
        /\ r.id = f.cash_request_id
        /\ r.final_user_id # NaN
        /\ ExpectedCohort(r.final_user_id) = c)

AcceptedFees == SelectSeq(clean_fees_csv, LAMBDA f : f.status = "accepted")

\* every accepted fee with a parent in the cohort, once
SumOncePerFee(c) ==
    LET fs == SelectSeq(AcceptedFees, LAMBDA f : ParentsIn(f, c) # <<>>)
    IN  SeqSum([k \in DOMAIN fs |-> fs[k].total_amount * fs[k].n])

\* every accepted fee, once per cash-request row that carries its id
SumPerParentRow(c) ==
    SeqSum([k \in DOMAIN AcceptedFees |->
               AcceptedFees[k].total_amount * AcceptedFees[k].n
                   * NRows(ParentsIn(AcceptedFees[k], c))])

AllCohorts == RawMonths \cup {NaTStr}

\* each accepted fee is counted exactly once
RevenueCountsFeeOnce ==
    Done("metrics_revenue") => \A c \in AllCohorts : RevenueOf(c) = SumOncePerFee(c)

\* What holds: each accepted fee is counted once per cash-request row whose
\* id is its cash_request_id, which is exactly once when no request id
\* repeats in the extract.
UniqueRequestIds ==
    \A i, j \in DOMAIN raw_cash :
        raw_cash[i].id = raw_cash[j].id => i = j /\ raw_cash[i].n = 1

RevenueCountsJoinedRows ==
    Done("metrics_revenue") =>
        /\ \A c \in AllCohorts : RevenueOf(c) = SumPerParentRow(c)
        /\ \A k \in DOMAIN cohort_revenue : cohort_revenue[k].cohort_year_month \in AllCohorts
        /\ UniqueRequestIds => \A c \in AllCohorts : RevenueOf(c) = SumOncePerFee(c)

\* two cohorts with revenue and no repeated request id, one of the fees
\* written "Accepted " in the raw extract, next to fees of another status and
\* fees without a parent
RevenueCountsJoinedRowsCase ==
    /\ Done("metrics_revenue")
    /\ UniqueRequestIds
    /\ {Ym(2019, 12), Ym(2020, 6)} \subseteq
          {cohort_revenue[k].cohort_year_month : k \in DOMAIN cohort_revenue}
    /\ \E i \in DOMAIN raw_fees : raw_fees[i].status = "Accepted "
    /\ \E i \in DOMAIN raw_fees : raw_fees[i].status \in {"rejected", "confirmed"}

\* ------------------------------------------------------------------------
\* C6: after identity unification every cash-request row has a final_user_id
\* and exactly one of user_id / deleted_account_id.
\* ------------------------------------------------------------------------
\* the cash table of the cleaning script once final_user_id exists
UnifiedCash ==
    IF Done("clean_save") THEN clean_cash_csv
    ELSE IF Done("clean_final_user_id") THEN cash_df
    ELSE <<>>

IdentityComplete ==
    \A i \in DOMAIN UnifiedCash :
        /\ UnifiedCash[i].final_user_id # NaN
        /\ (UnifiedCash[i].user_id # NaN) # (UnifiedCash[i].deleted_account_id # NaN)

\* ------------------------------------------------------------------------
\* C7: final_user_id is user_id when present, else deleted_account_id; on a
\* row with both, deleted_account_id is nulled and user_id wins; the conflict
\* resolution changes nothing else.
\* ------------------------------------------------------------------------
RawConflict(r) == r.user_id # NaN /\ r.deleted_account_id # NaN

\* the cash table right after the conflict resolution, before later steps
ResolvedCash == IF pc = "clean_final_user_id" THEN cash_df ELSE <<>>

IdentityRule ==
    /\ UnifiedCash # <<>> =>
          /\ Len(UnifiedCash) = Len(raw_cash)
          /\ \A i \in DOMAIN UnifiedCash :
               LET raw == raw_cash[i]
                   row == UnifiedCash[i]
               IN  /\ row.final_user_id =
                        (IF raw.user_id # NaN THEN raw.user_id ELSE raw.deleted_account_id)
                   /\ RawConflict(raw) =>
                        row.final_user_id = raw.user_id /\ row.deleted_account_id = NaN
                   /\ ~RawConflict(raw) => row.deleted_account_id = raw.deleted_account_id
                   /\ row.user_id = raw.user_id
    /\ ResolvedCash # <<>> =>
          /\ Len(ResolvedCash) = Len(raw_cash)
          /\ \A i \in DOMAIN ResolvedCash :
               ResolvedCash[i] =
                   [convert_datetime(raw_cash, cash_datetime)[i] EXCEPT
                       !.transfer_type = read_csv_text(@),
                       !.recovery_status = read_csv_text(@),
                       !.deleted_account_id = IF RawConflict(raw_cash[i]) THEN NaN ELSE @]

\* a table with a row that has both ids next to a row that has only a
\* deleted_account_id, unified
IdentityRuleWitness ==
    /\ UnifiedCash # <<>>
    /\ \E i \in DOMAIN raw_cash : RawConflict(raw_cash[i])
    /\ \E i \in DOMAIN raw_cash :
          raw_cash[i].user_id = NaN /\ raw_cash[i].deleted_account_id # NaN

\* ------------------------------------------------------------------------
\* C8: the left join keeps every cash request: once with null fee fields when
\* no fee references it, once per referencing fee otherwise; no request id is
\* lost and the row count does not shrink.
\* ------------------------------------------------------------------------
CashCols ==
    {"cash_request_id", "cash_created_at", "user_id", "deleted_account_id",
     "final_user_id", "recovery_status", "year_month", "incident_flag"}

CashPart(r) == [c \in CashCols |-> r[c]]

FeePart(r) == <<r.fee_status, r.total_amount>>

NoFee == <<NaNStr, NaN>>

\* merged_df is the join of cash_df and fees_df of the EDA script, as long
\* as that script holds them
Joined == Done("eda_merge") /\ ~Done("metrics_load")

LeftJoinKeepsRequests ==
    Joined =>
        /\ \A k \in {CashPart(cash_df[i]) : i \in DOMAIN cash_df} :
             LET copies == NRows(SelectSeq(cash_df, LAMBDA c : CashPart(c) = k))
                 fees == SelectSeq(fees_df, LAMBDA f : f.cash_request_id = k.cash_request_id)
                 mine == SelectSeq(merged_df, LAMBDA r : CashPart(r) = k)
             IN  IF fees = <<>>
                 THEN /\ NRows(mine) = copies
                      /\ \A j \in DOMAIN mine : FeePart(mine[j]) = NoFee
                 ELSE /\ NRows(mine) = copies * NRows(fees)
                      /\ \A v \in {FeePart(fees[j]) : j \in DOMAIN fees}
                                \cup {FeePart(mine[j]) : j \in DOMAIN mine} :
                            NRows(SelectSeq(mine, LAMBDA r : FeePart(r) = v))
                              = copies * NRows(SelectSeq(fees, LAMBDA f : FeePart(f) = v))
        /\ \A j \in DOMAIN merged_df :
             \E i \in DOMAIN cash_df : CashPart(cash_df[i]) = CashPart(merged_df[j])
        /\ {merged_df[j].cash_request_id : j \in DOMAIN merged_df}
             = {cash_df[i].cash_request_id : i \in DOMAIN cash_df}
        /\ NRows(merged_df) >= NRows(cash_df)

\* a request without fees next to a request with two fees, and a fee
\* that references no request
LeftJoinKeepsRequestsWitness ==
    /\ Joined
    /\ \E j \in DOMAIN merged_df : FeePart(merged_df[j]) = NoFee
    /\ \E i \in DOMAIN cash_df :
          NRows(SelectSeq(merged_df, LAMBDA r : CashPart(r) = CashPart(cash_df[i]))) >= 2
    /\ \E j \in DOMAIN fees_df :
          \A i \in DOMAIN cash_df : cash_df[i].cash_request_id # fees_df[j].cash_request_id

\* ------------------------------------------------------------------------
\* C9: every fee of the cleaned fee table references an id of the cleaned
\* cash-request table.
\* ------------------------------------------------------------------------
ReferentialIntegrity ==
    Done("clean_save") =>
        \A j \in DOMAIN clean_fees_csv :
            \E i \in DOMAIN clean_cash_csv :
                clean_cash_csv[i].id = clean_fees_csv[j].cash_request_id

\* ------------------------------------------------------------------------
\* C10: avg_retention_months of a cohort of the CLV table is the number of
\* non-partial months with a positive usage cell, and clv is arpu times that
\* number; no active month is lost to the rounding of its retention ratio.
\* ------------------------------------------------------------------------
ActiveMonths(c) ==
    IF c \in cohort_usage_matrix.index
    THEN {m \in cohort_usage_matrix.columns \ partial_months :
             cohort_usage_matrix.cell[<<c, m>>] > 0}
    ELSE {}

ClvCountsActiveMonths ==
    Done("metrics_clv") =>
        \A k \in DOMAIN clv_df :
            /\ clv_df[k].avg_retention_months
                   = Cardinality(ActiveMonths(clv_df[k].cohort_year_month))
            /\ clv_df[k].clv
                   = clv_df[k].arpu * Cardinality(ActiveMonths(clv_df[k].cohort_year_month))

\* ------------------------------------------------------------------------
\* C11: arpu of a cohort is its revenue divided by the number of distinct
\* final_user_id values whose cohort it is, rounded to 2 decimals; the count
\* does not depend on how many requests or fees a user has.
\* ------------------------------------------------------------------------
\* the users the cleaning identifies in the raw extract
RawUsers == {RawUser(raw_cash[i]) : i \in DOMAIN raw_cash} \ {NaN}

UsersOfCohort(c) == {u \in RawUsers : ExpectedCohort(u) = c}

ArpuPerUser ==
    Done("metrics_arpu") =>
        /\ Len(arpu_df) = Len(cohort_revenue)
        /\ \A k \in DOMAIN arpu_df :
             LET c == arpu_df[k].cohort_year_month
             IN  /\ c = cohort_revenue[k].cohort_year_month
                 /\ arpu_df[k].cohort_revenue = cohort_revenue[k].cohort_revenue
                 /\ arpu_df[k].user_count = Cardinality(UsersOfCohort(c))
                 /\ arpu_df[k].arpu
                       = RoundDiv(arpu_df[k].cohort_revenue, Cardinality(UsersOfCohort(c)), 100)

\* a cohort of three users, one of them with several joined rows, whose
\* revenue does not divide evenly
ArpuPerUserWitness ==
    /\ Done("metrics_arpu")
    /\ \E k \in DOMAIN arpu_df :
          /\ arpu_df[k].user_count = 3
          /\ arpu_df[k].arpu * 3 # arpu_df[k].cohort_revenue * 100
          /\ NRows(SelectSeq(merged_df, LAMBDA r :
                    r.cohort_year_month = arpu_df[k].cohort_year_month)) > 3

\* ------------------------------------------------------------------------
\* C12: incident_rate of a cohort is (joined rows flagged incident) / (all
\* joined rows), 4 decimals; a row is flagged incident exactly when the
\* recovery_status of its request is non-null in the cleaned table; a request
\* whose raw recovery_status is missing is flagged no_incident.
\* ------------------------------------------------------------------------
\* joined rows the EDA makes of one row of the cleaned cash table
CleanFanOut(r) ==
    LET k == NRows(SelectSeq(clean_fees_csv, LAMBDA f : f.cash_request_id = r.id))
    IN  r.n * (IF k = 0 THEN 1 ELSE k)

CleanRowsOfCohort(c) ==
    SelectSeq(clean_cash_csv, LAMBDA r :
        r.final_user_id # NaN /\ ExpectedCohort(r.final_user_id) = c)

ExpectedTotal(c) ==
    LET rows == CleanRowsOfCohort(c)
    IN  SeqSum([i \in DOMAIN rows |-> CleanFanOut(rows[i])])

ExpectedIncidents(c) ==
    LET rows == SelectSeq(CleanRowsOfCohort(c), LAMBDA r : r.recovery_status # NaNStr)
    IN  SeqSum([i \in DOMAIN rows |-> CleanFanOut(rows[i])])

\* the cash table of the EDA script carries the incident flag
Flagged == Done("eda_incident_flag") /\ ~Done("eda_save")

IncidentRateOfCleaned ==
    /\ Done("metrics_incident") =>
          \A k \in DOMAIN incident_df :
              LET c == incident_df[k].cohort_year_month
              IN  /\ incident_df[k].total_requests = ExpectedTotal(c)
                  /\ incident_df[k].incident_requests = ExpectedIncidents(c)
                  /\ incident_df[k].incident_rate
                        = RoundDiv(ExpectedIncidents(c), ExpectedTotal(c), 10000)
    /\ Flagged =>
          \A i \in DOMAIN cash_df :
              /\ cash_df[i].incident_flag = "incident"
                    <=> clean_cash_csv[i].recovery_status # NaNStr
              /\ raw_cash[i].recovery_status = NaNStr
                    => cash_df[i].incident_flag = "no_incident"

\* ------------------------------------------------------------------------
\* C13: with the cohorts sorted ascending, cumulative_revenue is
\* non-decreasing from each cohort to the next, whatever the cleaning stage
\* lets through.
\* ------------------------------------------------------------------------
SortedByCohort(t) ==
    \A k \in DOMAIN t : k < Len(t) => t[k].cohort_year_month < t[k + 1].cohort_year_month

\* C13 as stated
CumulativeNonDecreasing ==
    Done("metrics_cumulative") =>
        /\ SortedByCohort(revenue_df)
        /\ \A k \in DOMAIN revenue_df :
             k < Len(revenue_df) =>
                 revenue_df[k].cumulative_revenue <= revenue_df[k + 1].cumulative_revenue

\* C13 amended: cumulative_revenue is the running sum of cohort_revenue over
\* the cohorts in ascending order; it does not decrease at a cohort exactly
\* when the revenue of that cohort is not negative (fees with a negative
\* total_amount pass the cleaning stage and enter the revenue).
CumulativeIsRunningSum ==
    Done("metrics_cumulative") =>
        /\ SortedByCohort(revenue_df)
        /\ Len(revenue_df) = Len(cohort_revenue)
        /\ \A k \in DOMAIN revenue_df :
             /\ revenue_df[k].cohort_year_month = cohort_revenue[k].cohort_year_month
             /\ revenue_df[k].cohort_revenue = cohort_revenue[k].cohort_revenue
             /\ revenue_df[k].cohort_revenue = SumPerParentRow(revenue_df[k].cohort_year_month)
             /\ revenue_df[k].cumulative_revenue =
                    (IF k = 1 THEN 0 ELSE revenue_df[k - 1].cumulative_revenue)
                        + revenue_df[k].cohort_revenue
             /\ k > 1 =>
                    (revenue_df[k - 1].cumulative_revenue <= revenue_df[k].cumulative_revenue
                        <=> revenue_df[k].cohort_revenue >= 0)

\* three cohorts, the first with a positive revenue, the second with a
\* negative one
CumulativeIsRunningSumWitness ==
    /\ Done("metrics_cumulative")
    /\ Len(revenue_df) = 3
    /\ revenue_df[1].cohort_revenue > 0
    /\ revenue_df[2].cohort_revenue < 0

\* ------------------------------------------------------------------------
\* C14: the filtered retention matrix has no row and no column for the first
\* and for the last calendar month present in the dataset, and each remaining
\* row is divided by its own entry-month cell of the filtered usage matrix
\* (all 0.0 when that cell is zero or its column is absent).
\* ------------------------------------------------------------------------
Max(S) == CHOOSE x \in S : \A y \in S : y <= x

\* first and last calendar month with a readable request in the raw extract
BoundaryMonths == IF RawMonths = {} THEN {} ELSE {Min(RawMonths), Max(RawMonths)}

\* the filtered matrix: usage without the months of B, each row divided by
\* its own month's cell
FilteredWithout(B) ==
    LET U == cohort_usage_matrix
        F == filtered_retention_matrix
    IN  /\ F.index = U.index \ B
        /\ F.columns = U.columns \ B
        /\ \A c \in F.index : \A m \in F.columns :
              F.cell[<<c, m>>] =
                  IF c \in F.columns /\ U.cell[<<c, c>>] > 0
                  THEN RoundDiv(U.cell[<<c, m>>], U.cell[<<c, c>>], 1000)
                  ELSE 0

FilteredDropsBoundaryMonths ==
    Done("metrics_filtered_retention") => FilteredWithout(BoundaryMonths)

\* ------------------------------------------------------------------------
\* C15: the CLV table has a row for a cohort exactly when the ARPU table has
\* one and the cohort is not a partial-boundary month, that is the first or
\* the last calendar month of the dataset; such a cohort does not appear at
\* all, not even with an empty value.
\* ------------------------------------------------------------------------
CohortsListed(t) == {t[k].cohort_year_month : k \in DOMAIN t}

\* the CLV table: the rows of the ARPU table without the cohorts of B
ClvWithout(B) ==
    /\ CohortsListed(clv_df) = CohortsListed(arpu_df) \ B
    /\ Len(clv_df) = Cardinality(CohortsListed(clv_df))
    /\ \A k \in DOMAIN clv_df :
         \E j \in DOMAIN arpu_df :
             /\ arpu_df[j].cohort_year_month = clv_df[k].cohort_year_month
             /\ arpu_df[j].arpu = clv_df[k].arpu
             /\ arpu_df[j].cohort_revenue = clv_df[k].cohort_revenue

ClvMembership == Done("metrics_clv") => ClvWithout(BoundaryMonths)

\* What holds: the cohorts left out are the two months written in the
\* metrics script, whatever months the dataset covers.
ClvDropsListedMonths == Done("metrics_clv") => ClvWithout(partial_months)

\* the ARPU table lists a cohort of the two listed months, which is also the
\* first month of the dataset, next to a cohort that the CLV table keeps
ClvDropsListedMonthsCase ==
    /\ Done("metrics_clv")
    /\ Ym(2019, 11) \in CohortsListed(arpu_df)
    /\ Ym(2019, 11) = Min(RawMonths)
    /\ clv_df # <<>>

\* ------------------------------------------------------------------------
\* C16: on every row of the cohort-tagged table the month of the row's own
\* created_at is not earlier than the row's cohort month; every usage cell
\* of a month earlier than its cohort is 0.
\* ------------------------------------------------------------------------
ActivityNotBeforeCohort ==
    /\ Done("metrics_cohort_merge") =>
          \A i \in DOMAIN merged_cash_fee_cohort :
              LET r == merged_cash_fee_cohort[i]
              IN  /\ r.year_month # NaN /\ r.final_user_id # NaN
                        => r.cohort_year_month \notin {NaN, NaTStr}
                  /\ r.year_month # NaN /\ r.cohort_year_month \notin {NaN, NaTStr}
                        => r.cohort_year_month <= r.year_month
    /\ Done("metrics_usage") =>
          \A c \in cohort_usage_matrix.index : \A m \in cohort_usage_matrix.columns :
              m < c => cohort_usage_matrix.cell[<<c, m>>] = 0

\* a user active in its cohort month and in a later one, next to a cohort
\* that starts in the later month, so that the matrix has a cell below the
\* diagonal
ActivityNotBeforeCohortWitness ==
    /\ Done("metrics_usage")
    /\ \E c \in cohort_usage_matrix.index : \E m \in cohort_usage_matrix.columns :
          m > c /\ cohort_usage_matrix.cell[<<c, m>>] > 0
    /\ \E c \in cohort_usage_matrix.index : \E m \in cohort_usage_matrix.columns :
          m < c /\ cohort_usage_matrix.cell[<<c, c>>] > 0

\* ------------------------------------------------------------------------
\* C17: a second run of the whole pipeline on the same raw extracts, with
\* the files of the first run still on disk, leaves every output table as
\* the first run left it.
\* ------------------------------------------------------------------------
Idempotent == run > 1 => Outputs = first_run

\* the second run has finished; the first had written cleaned tables that
\* differ from the raw ones, cohorts and revenue
IdempotentWitness ==
    /\ run = 2
    /\ pc = "done"
    /\ cohort_revenue # <<>>
    /\ Len(user_first_request_csv) = 4
    /\ \E i \in DOMAIN raw_cash : raw_cash[i].recovery_status = "NULL "
    /\ \E i \in DOMAIN raw_fees : raw_fees[i].status = "Accepted "

\* ------------------------------------------------------------------------
\* C18: when a cash request has neither user_id nor deleted_account_id, so
\* that its final_user_id is null after unification, the pipeline halts:
\* the cleaned tables are not written and no cohort is computed.
\* ------------------------------------------------------------------------
NullUser == \E i \in DOMAIN raw_cash : RawUser(raw_cash[i]) = NaN

HaltsOnNullUser ==
    Done("clean_final_user_id") /\ NullUser =>
        /\ CleanFiles \cap disk = {}
        /\ clean_cash_csv = <<>> /\ clean_fees_csv = <<>>
        /\ user_first_request = <<>> /\ user_first_request_csv = <<>>

\* ------------------------------------------------------------------------
\* C19: when after the cohort join a row has no cohort, or a user has more
\* than one cohort, the metrics script stops and writes no metric table.
\* ------------------------------------------------------------------------
CohortInvalid ==
    \/ \E i \in DOMAIN merged_cash_fee_cohort : merged_cash_fee_cohort[i].cohort_month = NaN
    \/ \E u \in UsersOf(merged_cash_fee_cohort) :
          Cardinality({r.cohort_month : r \in Range(RowsOfUser(merged_cash_fee_cohort, u))}) > 1

HaltsOnInvalidCohort ==
    Done("metrics_cohort_merge") /\ CohortInvalid =>
        /\ cohort_usage_matrix = EmptyMatrix
        /\ retention_matrix = EmptyMatrix
        /\ filtered_retention_matrix = EmptyMatrix
        /\ incident_df = <<>>
        /\ cohort_revenue = <<>>
        /\ arpu_df = <<>>
        /\ clv_df = <<>>

\* ------------------------------------------------------------------------
\* C20: in each stage (cleaning, EDA, metrics), when an input file the stage
\* reads is missing at the moment it is first read, the stage ends with an
\* error and has written none of its output tables.
\* ------------------------------------------------------------------------
\* the tables each stage writes
CleanOutputs == <<clean_cash_csv, clean_fees_csv>>
EdaOutputs == <<user_first_request_csv, merged_cash_fee_csv>>
MetricsOutputs ==
    <<merged_cash_fee_cohort_csv, cohort_usage_matrix, retention_matrix,
      filtered_retention_matrix, incident_df, cohort_revenue, revenue_df,
      arpu_df, clv_df>>

NoMetricsOutputs ==
    <<<<>>, EmptyMatrix, EmptyMatrix, EmptyMatrix, <<>>, <<>>, <<>>, <<>>, <<>>>>

\* In a first run of the pipeline a stage that has ended on a missing file
\* has none of its tables written.
MissingInputStops ==
    /\ pc = "clean_failed" => CleanOutputs = <<<<>>, <<>>>>
    /\ pc = "eda_failed" => EdaOutputs = <<<<>>, <<>>>>
    /\ pc \in {"metrics_failed", "revenue_failed"} => MetricsOutputs = NoMetricsOutputs

\* What holds: a stage that finds a file missing in its load cell stops
\* there without a change to any table, and the ended stage changes nothing
\* afterwards.
Stopped == pc \in {"clean_failed", "eda_failed", "metrics_failed", "revenue_failed"}

InputsOf(p) ==
    CASE p = "clean_load"   -> RawFiles
      [] p = "eda_load"     -> CleanFiles
      [] p = "metrics_load" -> EdaFiles

FailureOf(p) ==
    CASE p = "clean_load"   -> "clean_failed"
      [] p = "eda_load"     -> "eda_failed"
      [] p = "metrics_load" -> "metrics_failed"

MissingAtLoadStops ==
    [][/\ Stopped => pc' \in {"eda_load", "metrics_load"} /\ Outputs' = Outputs
       /\ \A p \in {"clean_load", "eda_load", "metrics_load"} :
             pc = p /\ ~(InputsOf(p) \subseteq disk) =>
                 /\ pc' = FailureOf(p)
                 /\ Outputs' = Outputs]_vars

\* each load cell has stopped with its first file read and its second file
\* missing
CleanStoppedOnFees ==
    /\ pc = "clean_failed"
    /\ "cash_request" \in disk
    /\ "fees" \notin disk
    /\ cash_df = read_cash_csv(raw_cash)
    /\ cash_df # <<>>
    /\ fees_df = <<>>
    /\ Outputs = <<disk, <<>>, <<>>, <<>>, <<>>, <<>>, EmptyMatrix, EmptyMatrix,
                   EmptyMatrix, <<>>, <<>>, <<>>, <<>>, <<>>>>

EdaStoppedOnFees ==
    /\ pc = "eda_failed"
    /\ "clean_cash_requests" \in disk
    /\ "clean_fees" \notin disk
    /\ cash_df # <<>>
    /\ EdaOutputs = <<<<>>, <<>>>>

MetricsStoppedAtLoad ==
    /\ pc = "metrics_failed"
    /\ "user_first_request" \in disk
    /\ "merged_cash_fee" \notin disk
    /\ merged_cash_fee_csv # <<>>
    /\ MetricsOutputs = NoMetricsOutputs

\* ------------------------------------------------------------------------
\* C21: the checks for future dates, duplicates and non-positive amounts
\* remove nothing and do not stop the run: the cleaned cash table has the
\* rows of the raw one, the cleaned fee table the raw fee rows with a
\* non-null cash_request_id, and the dropped count is the number of fee rows
\* with a null key.
\* ------------------------------------------------------------------------
KeyedFees == SelectSeq(raw_fees, LAMBDA f : f.cash_request_id # NaN)

DetectionKeepsRows ==
    /\ pc # "clean_failed"
    /\ Done("clean_save") =>
          /\ Len(clean_cash_csv) = Len(raw_cash)
          /\ \A i \in DOMAIN clean_cash_csv :
               /\ clean_cash_csv[i].id = raw_cash[i].id
               /\ clean_cash_csv[i].n = raw_cash[i].n
               /\ clean_cash_csv[i].user_id = raw_cash[i].user_id
               /\ clean_cash_csv[i].created_at = to_datetime_coerce(raw_cash[i].created_at)
          /\ Len(clean_fees_csv) = Len(KeyedFees)
          /\ \A j \in DOMAIN clean_fees_csv :
               /\ clean_fees_csv[j].cash_request_id = KeyedFees[j].cash_request_id
               /\ clean_fees_csv[j].total_amount = KeyedFees[j].total_amount
               /\ clean_fees_csv[j].n = KeyedFees[j].n
          /\ report.dropped = NRows(raw_fees) - NRows(KeyedFees)

\* the cleaned tables are written after every check has found something:
\* a future date, a repeated id, a non-positive amount, a fee without key
DetectionKeepsRowsWitness ==
    /\ Done("clean_save")
    /\ report.future > 0
    /\ report.id_dupes > 0
    /\ report.nonpositive > 0
    /\ report.dropped > 0

\* ------------------------------------------------------------------------
\* C22: a fee is in the joined table exactly when its cash_request_id is
\* non-null and is the id of a cash request. A fee with a null key is removed
\* by the cleaning; a fee with a non-null key that matches no request is
\* reported by the unmatched-id check and is absent from the joined table
\* and from the metrics.
\* ------------------------------------------------------------------------
RawIds == {raw_cash[i].id : i \in DOMAIN raw_cash}

Matched(f) == f.cash_request_id # NaN /\ f.cash_request_id \in RawIds

\* the joined table: in memory after the merge, on disk once the EDA saved it
JoinedTable ==
    IF Done("eda_save") THEN merged_cash_fee_csv
    ELSE IF Done("eda_merge") THEN merged_df
    ELSE <<>>

\* fee f of the raw extract is carried by a row of table t
FeeIn(t, f) ==
    \E j \in DOMAIN t :
        /\ t[j].cash_request_id = f.cash_request_id
        /\ t[j].fee_status = clean_categorical_value(f.status)
        /\ t[j].total_amount = f.total_amount

MatchedAccepted ==
    SelectSeq(raw_fees, LAMBDA f :
        Matched(f) /\ clean_categorical_value(f.status) = "accepted")

FeeJoinedIffMatched ==
    /\ Done("clean_unmatched") /\ ~Done("clean_save") =>
          \A i \in DOMAIN raw_fees :
              ~Matched(raw_fees[i]) =>
                  \E j \in DOMAIN unmatched_ids :
                      /\ unmatched_ids[j].cash_request_id = raw_fees[i].cash_request_id
                      /\ unmatched_ids[j].total_amount = raw_fees[i].total_amount
    /\ Done("clean_save") =>
          \A j \in DOMAIN clean_fees_csv : clean_fees_csv[j].cash_request_id # NaN
    /\ Done("eda_merge") =>
          /\ \A i \in DOMAIN raw_fees :
                FeeIn(JoinedTable, raw_fees[i]) <=> Matched(raw_fees[i])
          /\ \A j \in DOMAIN JoinedTable :
                JoinedTable[j].cash_request_id \in RawIds
    /\ Done("metrics_incident") =>
          SeqSum([k \in DOMAIN incident_df |-> incident_df[k].total_requests])
            = SeqSum([i \in DOMAIN raw_cash |-> RawFanOut(raw_cash[i])])
    /\ Done("metrics_revenue") =>
          SeqSum([k \in DOMAIN cohort_revenue |-> cohort_revenue[k].cohort_revenue])
            = SeqSum([k \in DOMAIN MatchedAccepted |->
                        MatchedAccepted[k].total_amount * MatchedAccepted[k].n
                          * NRows(SelectSeq(raw_cash, LAMBDA r :
                                     r.id = MatchedAccepted[k].cash_request_id))])

\* the revenue is computed from extracts that hold a fee of a request and a
\* fee whose key is the id of no request
FeeJoinedIffMatchedWitness ==
    /\ Done("metrics_revenue")
    /\ Len(cohort_revenue) > 0
    /\ \E i \in DOMAIN raw_fees : Matched(raw_fees[i])
    /\ \E i \in DOMAIN raw_fees :
          raw_fees[i].cash_request_id # NaN /\ ~Matched(raw_fees[i])

\* ------------------------------------------------------------------------
\* C23: no stage changes the output of an earlier stage: the cleaning leaves
\* the raw extracts as they are, the EDA leaves the cleaned tables as they
\* are, the metrics stage leaves user_first_request.csv and
\* merged_cash_fee.csv (and the cleaned tables) as they are; no stage
\* removes a file.
\* ------------------------------------------------------------------------
InStage(first, last) == At(StagePc(pc)) \in At(first)..At(last)

StagesKeepEarlierOutputs ==
    [][/\ disk \subseteq disk'
       /\ InStage("clean_load", "clean_save") => inputs' = inputs
       /\ InStage("eda_load", "eda_save") => inputs' = inputs /\ files1' = files1
       /\ InStage("metrics_load", "metrics_clv") =>
              inputs' = inputs /\ files1' = files1 /\ files2' = files2]_vars

\* a run has written the files of all three stages
StagesKeepEarlierOutputsWitness ==
    /\ pc = "done"
    /\ CleanFiles \cup EdaFiles \cup {"merged_cash_fee_cohort"} \subseteq disk
    /\ clean_cash_csv # <<>>
    /\ merged_cash_fee_csv # <<>>
    /\ merged_cash_fee_cohort_csv # <<>>
    /\ run > 1

\* ------------------------------------------------------------------------
\* C24: after the categorical standardization a value is missing exactly
\* when it was missing before or its lowercased, trimmed text is "nan"; any
\* other value is its former text lowercased and trimmed; no cell holds the
\* text "nan"; standardizing a second time changes nothing.
\* ------------------------------------------------------------------------
Standardized == pc \in {"clean_monetary", "clean_save"}

\* the cell as pd.read_csv gave it to the cleaning script
LoadedStatus(i) == read_csv_text(raw_cash[i].recovery_status)

LoadedFeeStatus(j) == read_csv_text(KeyedFees[j].status)

StandardizedValue(before, after) ==
    /\ after = NaNStr <=> (before = NaNStr \/ LowerStrip(before) = "nan")
    /\ after # NaNStr => after = LowerStrip(before)
    /\ after # "nan"

CategoricalStandardized ==
    Standardized =>
        /\ Len(cash_df) = Len(raw_cash) /\ Len(fees_df) = Len(KeyedFees)
        /\ \A i \in DOMAIN cash_df :
              StandardizedValue(LoadedStatus(i), cash_df[i].recovery_status)
        /\ \A j \in DOMAIN fees_df :
              StandardizedValue(LoadedFeeStatus(j), fees_df[j].status)
        /\ clean_categorical_column(cash_df, "recovery_status") = cash_df
        /\ clean_categorical_column(fees_df, "status") = fees_df

\* a text that spells "nan" with blanks and capitals and a text that changes
\* when lowered have been standardized
CategoricalStandardizedWitness ==
    /\ Standardized
    /\ \E i \in DOMAIN cash_df :
          LoadedStatus(i) = " NaN " /\ cash_df[i].recovery_status = NaNStr
    /\ \E i \in DOMAIN cash_df :
          LoadedStatus(i) \in {"Completed", "NULL "}
            /\ cash_df[i].recovery_status \in {"completed", "null"}

\* ------------------------------------------------------------------------
\* C25: for a cohort and a month that are both outside the partial months,
\* the cell of the filtered retention matrix is the cell of the unfiltered
\* retention matrix.
\* ------------------------------------------------------------------------
FilteredAgreesWithFull ==
    Done("metrics_filtered_retention") =>
        LET R == retention_matrix
            F == filtered_retention_matrix
        IN  /\ F.index = R.index \ partial_months
            /\ F.columns = R.columns \ partial_months
            /\ \A c \in R.index \ partial_months :
                  \A m \in R.columns \ partial_months :
                      F.cell[<<c, m>>] = R.cell[<<c, m>>]

\* the usage matrix has a partial month, and a cohort outside the partial
\* months is active in a later month outside them
FilteredAgreesWithFullWitness ==
    /\ Done("metrics_filtered_retention")
    /\ retention_matrix.columns \cap partial_months # {}
    /\ \E c \in filtered_retention_matrix.index :
          \E m \in filtered_retention_matrix.columns :
              m # c /\ filtered_retention_matrix.cell[<<c, m>>] > 0

\* ------------------------------------------------------------------------
\* C26: for every cohort the sum of its row of the usage matrix is the
\* total_requests of the incident table, and both tables list the same
\* cohorts, rows with an unparsed created_at included.
\* ------------------------------------------------------------------------
UsageRowSum(c) ==
    LET cols == SortedSeq(cohort_usage_matrix.columns)
    IN  SeqSum([k \in DOMAIN cols |-> cohort_usage_matrix.cell[<<c, cols[k]>>]])

IncidentCohorts == {incident_df[k].cohort_year_month : k \in DOMAIN incident_df}

UsageMatchesIncident ==
    Done("metrics_incident") =>
        /\ cohort_usage_matrix.index = IncidentCohorts
        /\ \A k \in DOMAIN incident_df :
              LET c == incident_df[k].cohort_year_month
              IN  c \in cohort_usage_matrix.index
                    => UsageRowSum(c) = incident_df[k].total_requests

\* the rows the usage matrix leaves out: requests of the cohort whose
\* created_at was not parsed
UnparsedRowsOf(c) ==
    NRows(SelectSeq(merged_cash_fee_cohort, LAMBDA r :
            r.cohort_year_month = c /\ r.year_month = NaN))

\* what holds instead: the two totals differ by the unparsed rows, and the
\* usage matrix lists the cohorts that have a parsed row
UsageMatchesIncidentParsed ==
    Done("metrics_incident") =>
        /\ cohort_usage_matrix.index \subseteq IncidentCohorts
        /\ \A k \in DOMAIN incident_df :
              LET c == incident_df[k].cohort_year_month
              IN  /\ c \in cohort_usage_matrix.index
                       <=> incident_df[k].total_requests > UnparsedRowsOf(c)
                  /\ c \in cohort_usage_matrix.index
                       => UsageRowSum(c) + UnparsedRowsOf(c)
                            = incident_df[k].total_requests

\* ------------------------------------------------------------------------
\* C27: when the metrics stage computes revenue, the merged_cash_fee_cohort
\* file it reads was written earlier in the same run from the table the
\* usage matrix was computed from; the stage never reads a file left by an
\* earlier run and never fails on the file after the usage, retention and
\* incident tables have been written.
\* ------------------------------------------------------------------------
RevenueReadsOwnFile ==
    /\ pc # "revenue_failed"
    /\ Done("metrics_revenue") =>
          /\ merged_cash_fee_cohort_csv = merged_cash_fee_cohort
          /\ merged_df = read_cohort_csv(merged_cash_fee_cohort)

\* the failure: the file was never written and the read stops the script
\* with the usage and incident tables of the run already computed
RevenueFailsAfterUsage ==
    ~(/\ pc = "revenue_failed"
      /\ run = 1
      /\ incident_df # <<>>
      /\ cohort_usage_matrix.index # {})

\* the stale read: revenue is computed from the file of an earlier run while
\* the table of this run has other rows
RevenueFromEarlierRun ==
    ~(/\ Done("metrics_revenue")
      /\ pc # "revenue_failed"
      /\ missing_columns(cash_header) # {}
      /\ merged_cash_fee_cohort_csv # merged_cash_fee_cohort)

\* with the columns of variable_types the file is written and read back in
\* the same run
RevenueReadsOwnFileStandard ==
    cash_header = CashHeader => RevenueReadsOwnFile

\* ------------------------------------------------------------------------
\* C28: identity unification never merges two accounts: two cash-request
\* rows have the same final_user_id only if they have the same user_id or
\* the same deleted_account_id; a row identified by user_id and a row
\* identified by deleted_account_id never share a final_user_id.
\* ------------------------------------------------------------------------
SameAccount(r, q) ==
    \/ r.user_id # NaN /\ r.user_id = q.user_id
    \/ r.deleted_account_id # NaN /\ r.deleted_account_id = q.deleted_account_id

NoAccountMerge ==
    \A i, j \in DOMAIN UnifiedCash :
        LET r == UnifiedCash[i]
            q == UnifiedCash[j]
        IN  r.final_user_id # NaN /\ r.final_user_id = q.final_user_id
                => SameAccount(r, q)

\* what holds instead: rows with one final_user_id are the same account or
\* an active account and a deleted account with the same number
NoAccountMergeUpToNumber ==
    \A i, j \in DOMAIN UnifiedCash :
        LET r == UnifiedCash[i]
            q == UnifiedCash[j]
        IN  r.final_user_id # NaN /\ r.final_user_id = q.final_user_id
                => \/ SameAccount(r, q)
                   \/ r.user_id # NaN /\ r.user_id = q.deleted_account_id /\ q.user_id = NaN
                   \/ q.user_id # NaN /\ q.user_id = r.deleted_account_id /\ r.user_id = NaN

\* ------------------------------------------------------------------------
\* C29: every cohort with a user in the per-user cohort mapping has a row in
\* the revenue, cumulative-revenue and ARPU tables; a cohort without an
\* accepted fee is listed with revenue 0 and ARPU 0.
\* ------------------------------------------------------------------------
MappedCohorts ==
    {user_first_request_csv[k].cohort_year_month : k \in DOMAIN user_first_request_csv}

HasAcceptedFee(c) ==
    \E k \in DOMAIN AcceptedFees : ParentsIn(AcceptedFees[k], c) # <<>>

ArpuOf(c) ==
    LET rows == SelectSeq(arpu_df, LAMBDA r : r.cohort_year_month = c)
    IN  IF rows = <<>> THEN NaN ELSE rows[1].arpu

EveryCohortListed ==
    Done("metrics_arpu") =>
        \A c \in MappedCohorts :
            /\ Listed(cohort_revenue, c)
            /\ Listed(revenue_df, c)
            /\ Listed(arpu_df, c)
            /\ ~HasAcceptedFee(c) => RevenueOf(c) = 0 /\ ArpuOf(c) = 0

\* what holds instead: the three tables list the cohorts with an accepted
\* fee and no other
OnlyPayingCohortsListed ==
    Done("metrics_arpu") =>
        \A c \in MappedCohorts :
            /\ Listed(cohort_revenue, c) <=> HasAcceptedFee(c)
            /\ Listed(revenue_df, c) <=> HasAcceptedFee(c)
            /\ Listed(arpu_df, c) <=> HasAcceptedFee(c)

\* ------------------------------------------------------------------------
\* C30: every cell of the retention matrix, full and filtered, lies between
\* 0 and 1: no cohort shows more activity in a later month than in its
\* entry month. (Cells are in thousandths.)
\* ------------------------------------------------------------------------
CellsOf(M) == {M.cell[p] : p \in M.index \X M.columns}

RatioToEntryMonth(M) ==
    \A c \in M.index : \A m \in M.columns :
        LET own == OwnMonth(cohort_usage_matrix, c)
            use == cohort_usage_matrix.cell[<<c, m>>]
            v == M.cell[<<c, m>>]
        IN  /\ v >= 0
            /\ own > 0
            /\ v = RoundDiv(use, own, 1000)
            /\ use <= own => v <= 1000
            /\ use > own => v >= 1000
            /\ 1000 * use >= 1001 * own => v > 1000
            /\ 2000 * (use - own) < own => v <= 1000

ExcessCells(M) ==
    {M.cell[<<c, m>>] : <<c, m>> \in
        {p \in M.index \X M.columns :
            cohort_usage_matrix.cell[p] > OwnMonth(cohort_usage_matrix, p[1])}}

====
